---- MODULE Spec2Model ----
(***************************************************************************)
(* Model of the XShaderCompiler reflection analyzer (ReflectionAnalyzer),  *)
(* of the HLSL -> GLSL converter (GLSLConverter) and of the buffer         *)
(* converter for MoltenVK (MoltenVKConverter).                             *)
(*                                                                         *)
(* The two passes share no state, and inside the analyzer the visits of    *)
(* resource declarations, of state declarations and of function            *)
(* declarations write disjoint parts of the reflection record.  Each part  *)
(* has its own specification over the module's variables:                  *)
(*   SpecUniforms   constant buffers, buffers, samplers -> uniforms        *)
(*   SpecStates     blend state declarations                               *)
(*   SpecFunctions  function declarations and the numthreads attribute     *)
(*   SpecConvert    the converter's walk over the AST                      *)
(*   SpecStateValues  rasterizer, depth, stencil and options state values  *)
(*   SpecProgram    the converter's visit of the program's global list     *)
(*   SpecReflect    binding slots and entry-point attributes               *)
(*   SpecEnums      operator enumerations and their spellings              *)
(*   SpecCalls      call expressions and the self parameter                *)
(*   SpecUnroll     array initializers of a statement list                 *)
(*   SpecEntryPoint the entry point's input and output variables           *)
(*   SpecObjectExpr object expressions with a structure prefix             *)
(*   SpecStructs    identifiers of structure declarations                  *)
(*   SpecRecord     one reflection record under repeated calls of Reflect  *)
(*   SpecMoltenVK   RWBuffer declarations under MoltenVKConverter          *)
(* C++ indices are kept 0-based as in the source; sequences are 1-based,   *)
(* so element i of a vector v is v[i + 1].                                 *)
(***************************************************************************)
EXTENDS Integers, Sequences, FiniteSets, TLC

VARIABLES
    shaderTarget,       \* ReflectionAnalyzer::shaderTarget_
    constantBuffers,    \* ReflectionData::constantBuffers
    textures,           \* ReflectionData::textures
    storageBuffers,     \* ReflectionData::storageBuffers
    samplerStates,      \* ReflectionData::samplerStates (map ident -> state)
    uniforms,           \* ReflectionData::uniforms
    defaultValues,      \* ReflectionData::defaultValues
    visited,            \* the declarations visited so far, in visit order
    blendState,         \* ReflectionData::blendState
    blendTargetIdx,     \* the local cursor of VisitStateDecl, case Blend
    valuesLeft,         \* values of the current initializer not yet decoded
    numStateDecls,      \* state declarations visited so far
    lastValue,          \* what the latest ReflectBlendStateValue call did
    numThreads,         \* ReflectionData::numThreads
    functions,          \* ReflectionData::functions
    fnVisited,          \* the function declarations visited, in visit order
    isVKSL,             \* GLSLConverter::isVKSL_
    options,            \* GLSLConverter::options_ (the fields the walk reads)
    status,             \* "idle", "running", "done", or "error" after a RuntimeErr
    frames,             \* the visitor's call stack, innermost visit first
    nodesLeft,          \* compound nodes the remaining AST may still hold
    symTable,           \* GLSLConverter::symTable_, innermost scope last
    scopeDecls,         \* per open scope, the identifiers declared in it
    funcDeclStack,      \* VisitorTracker: stack of PushFunctionDecl
    structDeclStack,    \* VisitorTracker: stack of PushStructDecl
    selfParamStack,     \* GLSLConverter::selfParamStack_
    globalReservedDecls,\* GLSLConverter::globalReservedDecls_
    obfuscationCounter, \* GLSLConverter::obfuscationCounter_
    anonymCounter,      \* GLSLConverter::anonymCounter_
    lastBlock,          \* statement list of the latest block, before and after
    lastStruct,         \* members of the latest structure, before and after
    lastDecl,           \* the latest declaration identifier registered
    rasterizerState,    \* ReflectionData::rasterizerState
    depthState,         \* ReflectionData::depthState
    stencilState,       \* ReflectionData::stencilState
    globalOptions,      \* ReflectionData::globalOptions
    stateExprs,         \* state values of the current initializer not yet decoded
    stateType,          \* StateDecl::GetStateType of the current declaration
    stateDeclsLeft,     \* state declarations the program still holds
    lastStateValue,     \* what the state value decoder call just made did
    reflectStatus,      \* "running", "returned", or "aborted" by an exception
    globalStmnts,       \* Program::globalStmnts
    disabledAST,        \* Program::disabledAST
    lastProgram,        \* VisitProgram: its position and the lists it started on
    inputAttributes,    \* ReflectionData::inputAttributes
    outputAttributes,   \* ReflectionData::outputAttributes
    lastEntryPoint,     \* the analyzer's VisitProgram: Program::entryPointRef it ended on
    enumCall,           \* the enum <-> string conversion called, with its argument
    enumResult,         \* what the call returned or threw
    funcDecl,           \* the function declaration ConvertFunctionDecl is working on
    lastCall,           \* the latest call expression visited, before and after
    callsLeft,          \* declarations and calls the program still holds
    stmntList,          \* the statement list visited last, before and after
    blocksLeft,         \* statement lists the program still holds
    entryPointLog,      \* Program::entryPointRef before and after the renaming
    lastObjectExpr,     \* the latest object expression visited, before and after
    exprsLeft,          \* object expressions the program still holds
    structLog,          \* the structure declarations visited so far
    declsLeft,          \* declaration statements the program still holds
    bufferStmnts,       \* the program's buffer declaration statements
    bufferStmntsBefore, \* the same statements as they were before the pass
    convertedSymbols,   \* MoltenVKConverter::convertedSymbols_
    bufferCursor,       \* the buffer declaration the walk visits next
    reflectRuns         \* the calls of Reflect with the same reflection record

uniformVars == <<constantBuffers, textures, storageBuffers, samplerStates,
                 uniforms, defaultValues, visited>>
stateVars == <<blendState, blendTargetIdx, valuesLeft, numStateDecls, lastValue>>
functionVars == <<numThreads, functions, fnVisited>>
convertVars == <<isVKSL, options, status, frames, nodesLeft, symTable,
                 scopeDecls, funcDeclStack, structDeclStack, selfParamStack,
                 globalReservedDecls, obfuscationCounter, anonymCounter,
                 lastBlock, lastStruct, lastDecl>>
stateValueVars == <<rasterizerState, depthState, stencilState, globalOptions,
                    stateExprs, stateType, stateDeclsLeft, lastStateValue,
                    reflectStatus>>
programVars == <<globalStmnts, disabledAST, lastProgram>>
attributeVars == <<inputAttributes, outputAttributes, lastEntryPoint>>
enumVars == <<enumCall, enumResult>>
callVars == <<funcDecl, lastCall, callsLeft>>
unrollVars == <<stmntList, blocksLeft>>
entryVars == <<entryPointLog>>
objectVars == <<lastObjectExpr, exprsLeft>>
structVars == <<structLog, declsLeft>>
moltenVars == <<bufferStmnts, bufferStmntsBefore, convertedSymbols,
                bufferCursor>>
recordVars == <<reflectRuns>>
laterVars == <<structVars, moltenVars, recordVars>>
furtherVars == <<unrollVars, entryVars, objectVars, laterVars>>
extraVars == <<stateValueVars, programVars, attributeVars, enumVars, callVars,
               furtherVars>>
vars == <<shaderTarget, uniformVars, stateVars, functionVars, convertVars,
          extraVars>>

\* per specification, the variables its actions leave alone
analyzerVars == <<shaderTarget, uniformVars, stateVars, functionVars>>
convertWalkVars == <<options, status, frames, nodesLeft, symTable,
                     scopeDecls, funcDeclStack, structDeclStack, selfParamStack,
                     globalReservedDecls, obfuscationCounter, anonymCounter,
                     lastBlock, lastStruct, lastDecl>>
othersOfStateValues == <<analyzerVars, convertVars, programVars, attributeVars,
                         enumVars, callVars, furtherVars>>
othersOfProgram == <<analyzerVars, convertWalkVars, stateValueVars, attributeVars,
                     enumVars, callVars, furtherVars>>
othersOfAttributes == <<analyzerVars, convertVars, stateValueVars, programVars,
                        enumVars, callVars, furtherVars>>
othersOfEnums == <<analyzerVars, convertVars, stateValueVars, programVars,
                   attributeVars, callVars, furtherVars>>
othersOfCalls == <<analyzerVars, options, frames, nodesLeft, symTable, scopeDecls,
                   funcDeclStack, structDeclStack, globalReservedDecls,
                   obfuscationCounter, anonymCounter, lastBlock, lastStruct,
                   lastDecl, stateValueVars, globalStmnts, lastProgram,
                   attributeVars, enumVars, furtherVars>>
convertOtherVars == <<isVKSL, status, frames, nodesLeft, symTable, scopeDecls,
                      funcDeclStack, structDeclStack, selfParamStack,
                      globalReservedDecls, obfuscationCounter, anonymCounter,
                      lastBlock, lastStruct, lastDecl>>
earlierVars == <<stateValueVars, programVars, attributeVars, enumVars, callVars>>
othersOfUnroll == <<analyzerVars, convertOtherVars, earlierVars, entryVars,
                    objectVars, laterVars>>
othersOfEntry == <<uniformVars, stateVars, functionVars, isVKSL, frames,
                   nodesLeft, symTable, scopeDecls, funcDeclStack,
                   structDeclStack, selfParamStack, anonymCounter, lastBlock,
                   lastStruct, lastDecl, earlierVars, unrollVars, objectVars,
                   laterVars>>
othersOfObject == <<analyzerVars, convertVars, earlierVars, unrollVars,
                    entryVars, laterVars>>
othersOfStructs == <<analyzerVars, isVKSL, status, frames, nodesLeft, symTable,
                     scopeDecls, funcDeclStack, structDeclStack,
                     selfParamStack, globalReservedDecls, lastBlock,
                     lastStruct, lastDecl, earlierVars, unrollVars, entryVars,
                     objectVars, moltenVars, recordVars>>
othersOfMolten == <<analyzerVars, convertVars, earlierVars, unrollVars,
                    entryVars, objectVars, structVars, recordVars>>

(***************************************************************************)
(* Bounds of the model.                                                    *)
(***************************************************************************)
MaxUniforms == 3     \* uniforms appended in one run of SpecUniforms
MaxMembers == 2      \* member statements of one constant buffer
MaxVarDecls == 2     \* declarators of one member / buffer statement

SeqsUpTo(S, n) == UNION {[1..k -> S] : k \in 0..n}

RECURSIVE SumSeq(_)
SumSeq(s) == IF s = <<>> THEN 0 ELSE Head(s) + SumSeq(Tail(s))

ShaderTargets == {"VertexShader", "FragmentShader", "ComputeShader"}

(***************************************************************************)
(* Reflection record: Reflection::Uniform, BindingSlot, DefaultValue.      *)
(***************************************************************************)
\* a default-constructed Reflection::Uniform
Uniform == [ident |-> "", type |-> "Variable", baseType |-> 0,
            uniformBlock |-> -1, defaultValue |-> -1, flags |-> {},
            spriteUVRef |-> ""]

BindingSlot(ident, location) == [ident |-> ident, location |-> location]

\* Register::GetForTarget: the first register that names no target or the
\* current one
RECURSIVE GetForTarget(_, _)
GetForTarget(slotRegisters, target) ==
    IF slotRegisters = <<>> THEN [found |-> FALSE, slot |-> 0]
    ELSE IF Head(slotRegisters).shaderTarget \in {"Undefined", target}
         THEN [found |-> TRUE, slot |-> Head(slotRegisters).slot]
         ELSE GetForTarget(Tail(slotRegisters), target)

\* a binding point that is 0 when no register is found
GetBindingPointOrZero(slotRegisters) ==
    LET slotRegister == GetForTarget(slotRegisters, shaderTarget)
    IN  IF slotRegister.found THEN slotRegister.slot ELSE 0

GetBindingPoint(slotRegisters) ==
    LET slotRegister == GetForTarget(slotRegisters, shaderTarget)
    IN  IF slotRegister.found THEN slotRegister.slot ELSE -1

\* DataTypeToReflType on the data types the model declares members with;
\* every DataType without a CONVERSION_ENTRY maps to Undefined (0)
DataTypeToReflType(dataType) ==
    CASE dataType = "Int"      -> 3
      [] dataType = "Float4x4" -> 70
      [] OTHER                 -> 0

\* IsStorageBufferType: the "Storage Buffers" group of BufferType
IsStorageBufferType(bufferType) ==
    bufferType \in {"Buffer", "StructuredBuffer", "ByteAddressBuffer", "RWBuffer",
                    "RWStructuredBuffer", "RWByteAddressBuffer",
                    "AppendStructuredBuffer", "ConsumeStructuredBuffer"}

\* BufferTypeToReflType on the buffer types the model declares
BufferTypeToReflType(bufferType) ==
    CASE bufferType = "RWBuffer"  -> 4
      [] bufferType = "Texture2D" -> 16
      [] OTHER                    -> 0

\* the flags decoded from a denoter's extended modifiers
ExtModifierFlags(extModifiers) == extModifiers \cap {"Internal", "Color"}

(***************************************************************************)
(* Integers of the decoders.  A literal's value (Variant::Int, a 64-bit    *)
(* integer) is kept as [hi, lo] with value hi * 2^16 + lo, so that the     *)
(* casts to uint32_t and int8_t keep their width.                          *)
(***************************************************************************)
TwoTo16 == 65536

IntLiteral(v) == [hi |-> v \div TwoTo16, lo |-> v % TwoTo16]

\* Variant::ParseFrom(literalExpr->value).Int() and .Bool()
VariantInt(literalExpr) == literalExpr.value

VariantBool(literalExpr) == literalExpr.value # IntLiteral(0)

\* (uint32_t)v: the low 32 bits
UInt32(v) == [hi |-> v.hi % TwoTo16, lo |-> v.lo]

\* static_cast<int>(v): the low 32 bits, two's complement
Int32(v) ==
    LET h == v.hi % TwoTo16
    IN  (IF h >= TwoTo16 \div 2 THEN h - TwoTo16 ELSE h) * TwoTo16 + v.lo

\* (int8_t)v: the low 8 bits, two's complement
Int8(v) == LET b == v.lo % 256 IN IF b >= 128 THEN b - 256 ELSE b

\* a < n for a uint32_t a and a small constant n
UInt32Less(a, n) == a.hi = 0 /\ a.lo < n

\* a++ for a uint32_t a
\* a cursor that is not advanced
UInt32Stay(a) == a

UInt32Inc(a) ==
    IF a.lo + 1 < TwoTo16 THEN [a EXCEPT !.lo = a.lo + 1]
    ELSE [hi |-> (a.hi + 1) % TwoTo16, lo |-> 0]

(***************************************************************************)
(* Reflection::BlendState                                                  *)
(***************************************************************************)
MAX_NUM_RENDER_TARGETS == 8

\* a default-constructed Reflection::BlendStateTarget (colorOp: whether an
\* initializer was decoded into it)
BlendStateTarget == [enabled |-> FALSE, writeMask |-> 15, colorOp |-> "default"]

BlendState == [alphaToCoverage |-> FALSE, independantBlend |-> FALSE,
               targets |-> [i \in 0..(MAX_NUM_RENDER_TARGETS - 1) |-> BlendStateTarget]]

\* a default-constructed Reflection::NumThreads
NumThreads == [x |-> 0, y |-> 0, z |-> 0]

\* lastValue before any state value was decoded
NoValue == [name |-> "", isInitializer |-> FALSE, targetIdx |-> UInt32(IntLiteral(0)),
            nonLiteralIndices |-> 0, reports |-> 0, writes |-> {},
            targetsChanged |-> FALSE, ast |-> <<>>]

(***************************************************************************)
(* Reflection::RasterizerState, DepthState, StencilState, GlobalOptions,   *)
(* default-constructed                                                     *)
(***************************************************************************)
RasterizerState == [fillMode |-> "Solid", cullMode |-> "CounterClockwise",
                    scissorEnable |-> FALSE, multisampleEnable |-> TRUE,
                    antialisedLineEnable |-> FALSE]

DepthState == [readEnable |-> TRUE, writeEnable |-> TRUE, compareFunc |-> "Less",
               depthBias |-> IntLiteral(0), scaledDepthBias |-> IntLiteral(0),
               depthClip |-> TRUE]

StencilOperation == [fail |-> "Keep", zfail |-> "Keep", pass |-> "Keep",
                     compareFunc |-> "Always"]

StencilState == [enabled |-> FALSE, reference |-> IntLiteral(0),
                 readMask |-> 255, writeMask |-> 255,
                 front |-> StencilOperation, back |-> StencilOperation]

GlobalOptions == [sortMode |-> "FrontToBack", separable |-> FALSE,
                  transparent |-> FALSE, forward |-> FALSE,
                  priority |-> IntLiteral(0)]

\* lastStateValue before any state value was decoded
NoStateValue == [decoded |-> FALSE, stateType |-> "Undefined", ast |-> <<>>,
                 reports |-> 0, before |-> <<>>, exprsBefore |-> <<>>]

(***************************************************************************)
(* The declarations the analyzer is run on.                                *)
(***************************************************************************)
\* register lists: none, and one with a register per target profile
Registers == {<<>>,
              <<[shaderTarget |-> "VertexShader", slot |-> 2],
                [shaderTarget |-> "Undefined", slot |-> 0]>>}

\* type denoters of constant-buffer members: a struct, a base type, and
\* an array (neither StructTypeDenoter nor BaseTypeDenoter)
MemberTypeDenoters ==
    {[kind |-> "Struct", dataType |-> "Undefined", extModifiers |-> {}],
     [kind |-> "Base", dataType |-> "Float4x4", extModifiers |-> {"Color"}],
     [kind |-> "Array", dataType |-> "Undefined", extModifiers |-> {}]}

NumVarDecls(varMembers) ==
    SumSeq([i \in 1..Len(varMembers) |-> Len(varMembers[i].varDecls)])

\* the shapes of a member list with n declarators: the number of
\* declarators of each member statement
Shapes(n) == {sz \in SeqsUpTo(1..MaxVarDecls, MaxMembers) : SumSeq(sz) = n}

\* the member list of shape sz whose i-th statement has type types[i] and
\* whose j-th declarator overall has default-value flag avail[j]
MakeVarMembers(sz, types, avail) ==
    [i \in 1..Len(sz) |->
        [typeDenoter |-> types[i],
         varDecls |-> [j \in 1..sz[i] |->
                          [ident |-> "wvpMatrix",
                           available |-> avail[SumSeq(SubSeq(sz, 1, i - 1)) + j]]]]]

\* the constant buffers declared: identifier, registers, modifiers
UniformBufferDecls ==
    {[ident |-> "VertexParam", slotRegisters |-> Registers1, extModifiers |-> {}] :
        Registers1 \in Registers}
    \cup {[ident |-> "PixelParam", slotRegisters |-> <<>>,
           extModifiers |-> {"Internal"}]}

BufferDecls == {[ident |-> "tex",
                 slotRegisters |-> <<[shaderTarget |-> "FragmentShader", slot |-> 3]>>,
                 available |-> FALSE],
                [ident |-> "buf", slotRegisters |-> <<>>, available |-> TRUE],
                [ident |-> "buf",
                 slotRegisters |-> <<[shaderTarget |-> "Undefined", slot |-> 1]>>,
                 available |-> TRUE]}

BufferTypeDenoters ==
    {[bufferType |-> "Texture2D", extModifiers |-> {}],
     [bufferType |-> "RWBuffer", extModifiers |-> {"Internal"}]}

SamplerDecls ==
    {[ident |-> "S", alias |-> "", samplerValues |-> <<>>],
     [ident |-> "T", alias |-> "S",
      samplerValues |-> <<[name |-> "AddressU", value |-> "Clamp"]>>],
     [ident |-> "S", alias |-> "",
      samplerValues |-> <<[name |-> "AddressU", value |-> "Bogus"]>>]}

(***************************************************************************)
(* ReflectionAnalyzer::VisitUniformBufferDecl                              *)
(***************************************************************************)
BlockIdxOffByOne(cbs) == Len(cbs)

\* int blockIdx = (int)data_->constantBuffers.size() - 1;
BlockIdx(cbs) == Len(cbs) - 1

NewDefaultValueIndexOffByOne(dvs) == Len(dvs) + 1

\* uniform.defaultValue = (int)data_->defaultValues.size();
NewDefaultValueIndex(dvs) == Len(dvs)

\* the uniform of one declarator of a member statement; dvs are the default
\* values present when it is reflected
MemberUniform(stmt, decl, blockIdx, dvs) ==
    LET isStruct == stmt.typeDenoter.kind = "Struct"
        hasBase == stmt.typeDenoter.kind = "Base"
        baseType == IF hasBase THEN stmt.typeDenoter.dataType ELSE "Undefined"
    IN  [Uniform EXCEPT
            !.ident = decl.ident,
            !.type = IF isStruct THEN "Struct" ELSE "Variable",
            !.baseType = DataTypeToReflType(baseType),
            !.uniformBlock = blockIdx,
            !.flags = IF hasBase THEN ExtModifierFlags(stmt.typeDenoter.extModifiers)
                      ELSE {},
            !.defaultValue = IF hasBase /\ decl.available
                             THEN NewDefaultValueIndex(dvs) ELSE -1]

\* whether reflecting the declarator pushes a default value
PushesDefaultValue(stmt, decl) == stmt.typeDenoter.kind = "Base" /\ decl.available

RECURSIVE ReflectVarDecls(_, _, _, _)
\* the loop over stmt->varDecls: acc = [uniforms, defaultValues]
ReflectVarDecls(stmt, decls, blockIdx, acc) ==
    IF decls = <<>> THEN acc
    ELSE LET decl == Head(decls)
             u == MemberUniform(stmt, decl, blockIdx, acc.defaultValues)
             dvs == IF PushesDefaultValue(stmt, decl)
                    THEN Append(acc.defaultValues, [owner |-> decl.ident, union |-> "matrix"])
                    ELSE acc.defaultValues
         IN  ReflectVarDecls(stmt, Tail(decls), blockIdx,
                             [uniforms |-> Append(acc.uniforms, u), defaultValues |-> dvs])

RECURSIVE ReflectVarMembers(_, _, _)
\* the loop over ast->varMembers
ReflectVarMembers(varMembers, cbs, acc) ==
    IF varMembers = <<>> THEN acc
    ELSE ReflectVarMembers(Tail(varMembers), cbs,
             ReflectVarDecls(Head(varMembers), Head(varMembers).varDecls, BlockIdx(cbs), acc))

UniformBufferUniformsLate(ast, cbs, acc) ==
    LET head == [Uniform EXCEPT !.ident = ast.ident, !.type = "UniformBuffer",
                                !.flags = ast.extModifiers \cap {"Internal"}]
        r == ReflectVarMembers(ast.varMembers, cbs, acc)
    IN  [r EXCEPT !.uniforms = Append(@, head)]

\* the uniforms and default values after the buffer's own uniform and its
\* members' uniforms were pushed; cbs holds the buffer's binding slot
UniformBufferUniforms(ast, cbs, acc) ==
    LET head == [Uniform EXCEPT !.ident = ast.ident, !.type = "UniformBuffer",
                                !.flags = ast.extModifiers \cap {"Internal"}]
    IN  ReflectVarMembers(ast.varMembers, cbs,
                          [acc EXCEPT !.uniforms = Append(@, head)])

VisitUniformBufferDecl ==
    \E decl \in UniformBufferDecls, n \in 0..(MaxUniforms - Len(uniforms) - 1) :
    \E sz \in Shapes(n) :
    \E types \in [1..Len(sz) -> MemberTypeDenoters], avail \in [1..n -> BOOLEAN] :
        LET varMembers == MakeVarMembers(sz, types, avail)
            ast == [kind |-> "UniformBufferDecl", ident |-> decl.ident,
                    slotRegisters |-> decl.slotRegisters,
                    extModifiers |-> decl.extModifiers,
                    varMembers |-> varMembers]
            cbs == Append(constantBuffers,
                          BindingSlot(ast.ident, GetBindingPoint(ast.slotRegisters)))
            r == UniformBufferUniforms(ast, cbs,
                     [uniforms |-> uniforms, defaultValues |-> defaultValues])
        IN  /\ constantBuffers' = cbs
            /\ uniforms' = r.uniforms
            /\ defaultValues' = r.defaultValues
            /\ visited' = Append(visited, [ast |-> ast,
                                           firstUniform |-> Len(uniforms),
                                           numUniforms |-> Len(r.uniforms) - Len(uniforms),
                                           slot |-> Len(constantBuffers)])
            /\ UNCHANGED <<textures, storageBuffers, samplerStates>>
            /\ UNCHANGED <<shaderTarget, stateVars, functionVars, convertVars,
                         extraVars>>

(***************************************************************************)
(* ReflectionAnalyzer::VisitBufferDeclStmnt                                *)
(***************************************************************************)
RECURSIVE ReflectBufferDecls(_, _, _)
\* the loop over ast->bufferDecls: acc = [textures, storageBuffers,
\* uniforms, defaultValues]
ReflectBufferDecls(typeDenoter, bufferDecls, acc) ==
    IF bufferDecls = <<>> THEN acc
    ELSE LET bufferDecl == Head(bufferDecls)
             bindingSlot == BindingSlot(bufferDecl.ident,
                                        GetBindingPoint(bufferDecl.slotRegisters))
             isStorage == IsStorageBufferType(typeDenoter.bufferType)
             u == [Uniform EXCEPT
                      !.ident = bufferDecl.ident,
                      !.type = "Buffer",
                      !.baseType = BufferTypeToReflType(typeDenoter.bufferType),
                      !.flags = ExtModifierFlags(typeDenoter.extModifiers),
                      !.defaultValue = IF bufferDecl.available
                                       THEN NewDefaultValueIndex(acc.defaultValues)
                                       ELSE -1]
         IN  ReflectBufferDecls(typeDenoter, Tail(bufferDecls),
                 [textures |-> IF isStorage THEN acc.textures
                               ELSE Append(acc.textures, bindingSlot),
                  storageBuffers |-> IF isStorage
                                     THEN Append(acc.storageBuffers, bindingSlot)
                                     ELSE acc.storageBuffers,
                  uniforms |-> Append(acc.uniforms, u),
                  defaultValues |-> IF bufferDecl.available
                                    THEN Append(acc.defaultValues,
                                                [owner |-> bufferDecl.ident,
                                                 union |-> "handle"])
                                    ELSE acc.defaultValues])

VisitBufferDeclStmnt ==
    \E typeDenoter \in BufferTypeDenoters,
       n \in 1..(MaxUniforms - Len(uniforms)) :
    \E bufferDecls \in [1..n -> BufferDecls] :
        LET ast == [kind |-> "BufferDeclStmnt", typeDenoter |-> typeDenoter,
                    bufferDecls |-> bufferDecls]
            r == ReflectBufferDecls(ast.typeDenoter, ast.bufferDecls,
                     [textures |-> textures, storageBuffers |-> storageBuffers,
                      uniforms |-> uniforms, defaultValues |-> defaultValues])
        IN  /\ n <= MaxVarDecls
            /\ textures' = r.textures
            /\ storageBuffers' = r.storageBuffers
            /\ uniforms' = r.uniforms
            /\ defaultValues' = r.defaultValues
            /\ visited' = Append(visited, [ast |-> ast,
                                           firstUniform |-> Len(uniforms),
                                           numUniforms |-> Len(r.uniforms) - Len(uniforms),
                                           slot |-> -1])
            /\ UNCHANGED <<constantBuffers, samplerStates>>
            /\ UNCHANGED <<shaderTarget, stateVars, functionVars, convertVars,
                         extraVars>>

(***************************************************************************)
(* ReflectionAnalyzer::VisitSamplerDecl                                    *)
(***************************************************************************)
\* a default-constructed Reflection::SamplerState (the fields the model
\* decodes)
SamplerState == [addressU |-> "Wrap", isNonDefault |-> FALSE, alias |-> ""]

\* ReflectSamplerValue, the AddressU case
ReflectSamplerValue(value, samplerState) ==
    IF value.name = "AddressU" /\ value.value \in {"Wrap", "Mirror", "Clamp", "Border",
                                                   "MirrorOnce"}
    THEN [samplerState EXCEPT !.addressU = value.value]
    ELSE samplerState

RECURSIVE ReflectSamplerValues(_, _)
ReflectSamplerValues(samplerValues, samplerState) ==
    IF samplerValues = <<>> THEN samplerState
    ELSE ReflectSamplerValues(Tail(samplerValues),
             [ReflectSamplerValue(Head(samplerValues), samplerState)
                 EXCEPT !.isNonDefault = TRUE])

\* std::map::operator[] assignment
MapPut(map, key, value) ==
    [k \in DOMAIN map \cup {key} |-> IF k = key THEN value ELSE map[k]]

VisitSamplerDecl ==
    \E decl \in SamplerDecls :
        LET ast == [kind |-> "SamplerDecl", ident |-> decl.ident, alias |-> decl.alias,
                    samplerValues |-> decl.samplerValues]
            samplerState == [ReflectSamplerValues(ast.samplerValues, SamplerState)
                                EXCEPT !.alias = ast.alias]
            u == [Uniform EXCEPT !.ident = ast.ident, !.type = "Sampler",
                                 !.baseType = 0]
        IN  /\ Len(uniforms) < MaxUniforms
            /\ samplerStates' = MapPut(samplerStates, ast.ident, samplerState)
            /\ uniforms' = Append(uniforms, u)
            /\ visited' = Append(visited, [ast |-> ast,
                                           firstUniform |-> Len(uniforms),
                                           numUniforms |-> 1,
                                           slot |-> -1])
            /\ UNCHANGED <<constantBuffers, textures, storageBuffers, defaultValues>>
            /\ UNCHANGED <<shaderTarget, stateVars, functionVars, convertVars,
                         extraVars>>

(***************************************************************************)
(* SpecUniforms: Reflect on a fresh record, visiting any sequence of       *)
(* constant-buffer, buffer and sampler declarations.                       *)
(***************************************************************************)
InitUniformsIdle ==
    /\ constantBuffers = <<>>
    /\ textures = <<>>
    /\ storageBuffers = <<>>
    /\ samplerStates = <<>>
    /\ uniforms = <<>>
    /\ defaultValues = <<>>
    /\ visited = <<>>

InitStatesIdle ==
    /\ blendState = BlendState
    /\ blendTargetIdx = UInt32(IntLiteral(0))
    /\ valuesLeft = 0
    /\ numStateDecls = 0
    /\ lastValue = NoValue

InitFunctionsIdle ==
    /\ numThreads = NumThreads
    /\ functions = <<>>
    /\ fnVisited = <<>>

\* the records of the converter's latest block, structure and declaration
NoBlock == [visited |-> FALSE, before |-> <<>>, after |-> <<>>]
NoStruct == [visited |-> FALSE, before |-> <<>>, after |-> <<>>]
NoDecl == [visited |-> FALSE, kind |-> "", original |-> <<>>, ident |-> <<>>]

\* a constructed converter on which Convert has not been called
InitConvertIdle ==
    /\ isVKSL = FALSE
    /\ options = [obfuscate |-> FALSE, unrollArrayInitializers |-> FALSE,
                  useAlwaysSemantics |-> FALSE]
    /\ status = "idle"
    /\ frames = <<>>
    /\ nodesLeft = 0
    /\ symTable = <<{}>>
    /\ scopeDecls = <<<<>>>>
    /\ funcDeclStack = <<>>
    /\ structDeclStack = <<>>
    /\ selfParamStack = <<>>
    /\ globalReservedDecls = <<>>
    /\ obfuscationCounter = 0
    /\ anonymCounter = 0
    /\ lastBlock = NoBlock
    /\ lastStruct = NoStruct
    /\ lastDecl = NoDecl

\* the analyzer's state records before any state declaration is visited
InitStateValuesIdle ==
    /\ rasterizerState = RasterizerState
    /\ depthState = DepthState
    /\ stencilState = StencilState
    /\ globalOptions = GlobalOptions
    /\ stateExprs = <<>>
    /\ stateType = "Undefined"
    /\ stateDeclsLeft = 0
    /\ lastStateValue = NoStateValue
    /\ reflectStatus = "running"

NoProgram == [stage |-> "idle", globalStmnts |-> <<>>, disabledAST |-> <<>>]

InitProgramIdle ==
    /\ globalStmnts = <<>>
    /\ disabledAST = <<>>
    /\ lastProgram = NoProgram

NoEntryPoint == [visited |-> FALSE, hasEntryPoint |-> FALSE, entryPoint |-> <<>>]

InitAttributesIdle ==
    /\ inputAttributes = <<>>
    /\ outputAttributes = <<>>
    /\ lastEntryPoint = NoEntryPoint

NoCall == [family |-> "", fn |-> "", arg |-> "", from |-> ""]
NoResult == [returned |-> FALSE]

InitEnumsIdle ==
    /\ enumCall = NoCall
    /\ enumResult = NoResult

NoFuncDecl == [converting |-> FALSE, visited |-> FALSE]
NoCallExpr == [visited |-> FALSE]

InitCallsIdle ==
    /\ funcDecl = NoFuncDecl
    /\ lastCall = NoCallExpr
    /\ callsLeft = 0

NoStmntList == [visited |-> FALSE]

InitUnrollIdle ==
    /\ stmntList = NoStmntList
    /\ blocksLeft = 0

NoEntryPointLog == [visited |-> FALSE]

InitEntryIdle == entryPointLog = NoEntryPointLog

NoObjectExpr == [visited |-> FALSE]

InitObjectIdle ==
    /\ lastObjectExpr = NoObjectExpr
    /\ exprsLeft = 0

InitStructsIdle ==
    /\ structLog = <<>>
    /\ declsLeft = 0

NoCursor == [stmnt |-> 0, decl |-> 0]

InitMoltenIdle ==
    /\ bufferStmnts = <<>>
    /\ bufferStmntsBefore = <<>>
    /\ convertedSymbols = {}
    /\ bufferCursor = NoCursor

InitRecordIdle == reflectRuns = 0

InitLaterIdle ==
    /\ InitStructsIdle
    /\ InitMoltenIdle
    /\ InitRecordIdle

InitFurtherIdle ==
    /\ InitUnrollIdle
    /\ InitEntryIdle
    /\ InitObjectIdle
    /\ InitLaterIdle

InitExtraIdle ==
    /\ InitStateValuesIdle
    /\ InitProgramIdle
    /\ InitAttributesIdle
    /\ InitEnumsIdle
    /\ InitCallsIdle
    /\ InitFurtherIdle

InitUniforms ==
    /\ shaderTarget \in ShaderTargets
    /\ InitUniformsIdle /\ InitStatesIdle /\ InitFunctionsIdle
    /\ InitExtraIdle
    /\ InitConvertIdle

NextUniforms ==
    \/ VisitUniformBufferDecl
    \/ VisitBufferDeclStmnt
    \/ VisitSamplerDecl

SpecUniforms == InitUniforms /\ [][NextUniforms]_vars

(***************************************************************************)
(* Claims on the uniforms of resource declarations (SpecUniforms).         *)
(***************************************************************************)
UniformIndices == 1..Len(uniforms)

\* C1: after any sequence of constant-buffer, buffer and sampler
\* declarations, every uniform's uniformBlock is -1 or an index i with
\* 0 <= i < size of constantBuffers.
C1_UniformBlockValid ==
    \A p \in UniformIndices :
        \/ uniforms[p].uniformBlock = -1
        \/ /\ 0 <= uniforms[p].uniformBlock
           /\ uniforms[p].uniformBlock < Len(constantBuffers)

\* a member of the second constant buffer, behind a uniform without block
C1_Witness ==
    /\ Len(constantBuffers) = 2
    /\ \E p, q \in UniformIndices :
          /\ p < q
          /\ uniforms[p].uniformBlock = -1
          /\ uniforms[q].uniformBlock = 1

\* C2: every uniform's defaultValue is -1 or an index i with
\* 0 <= i < size of defaultValues, and no two uniforms share a
\* non-negative defaultValue.
C2_DefaultValueValid ==
    /\ \A p \in UniformIndices :
          \/ uniforms[p].defaultValue = -1
          \/ /\ 0 <= uniforms[p].defaultValue
             /\ uniforms[p].defaultValue < Len(defaultValues)
    /\ \A p, q \in UniformIndices :
          (p # q /\ uniforms[p].defaultValue >= 0)
              => uniforms[p].defaultValue # uniforms[q].defaultValue

\* a buffer and a constant-buffer member, each with its own default value
C2_Witness ==
    \E p, q \in UniformIndices :
        /\ uniforms[p].type = "Buffer" /\ uniforms[p].defaultValue = 0
        /\ uniforms[q].type = "Variable" /\ uniforms[q].defaultValue = 1

\* the positions in uniforms of the uniforms appended by visit k
VisitRange(k) ==
    (visited[k].firstUniform + 1)..(visited[k].firstUniform + visited[k].numUniforms)

\* C3: for every constant-buffer declaration visited, exactly one uniform
\* of type UniformBuffer carrying the buffer's identifier is appended, it
\* precedes the uniforms of all of the buffer's members, and each member
\* uniform's uniformBlock is the index in constantBuffers of the binding
\* slot appended for that buffer.
C3_UniformBufferFirst ==
    \A k \in 1..Len(visited) :
        LET v == visited[k]
            heads == {p \in VisitRange(k) : uniforms[p].type = "UniformBuffer"}
            members == {p \in VisitRange(k) : uniforms[p].type \in {"Variable", "Struct"}}
        IN  IF v.ast.kind = "UniformBufferDecl"
            THEN /\ Cardinality(heads) = 1
                 /\ \A p \in heads : uniforms[p].ident = v.ast.ident
                 /\ Cardinality(members) = NumVarDecls(v.ast.varMembers)
                 /\ \A p \in heads, q \in members : p < q
                 /\ v.slot + 1 \in 1..Len(constantBuffers)
                 /\ constantBuffers[v.slot + 1].ident = v.ast.ident
                 /\ \A q \in members : uniforms[q].uniformBlock = v.slot
            ELSE heads = {}

\* the second constant buffer visited has a member
C3_Witness ==
    \E k \in 1..Len(visited) :
        /\ visited[k].ast.kind = "UniformBufferDecl"
        /\ visited[k].slot = 1
        /\ visited[k].ast.varMembers # <<>>

(***************************************************************************)
(* ReflectionAnalyzer::VisitStateDecl, case StateType::Blend               *)
(***************************************************************************)
MaxStateDecls == 2      \* blend state declarations of one program
MaxValues == 2          \* state values of one blend state initializer

LiteralExpr(v) == [kind |-> "LiteralExpr", value |-> v]

ObjectExpr == [kind |-> "ObjectExpr"]

StateInitializerExpr(exprs) == [kind |-> "StateInitializerExpr", exprs |-> exprs]

\* the literals written as an explicit target index: -1, 7, 8 and 2^32 + 1
IndexLiterals == {IntLiteral(-1), IntLiteral(7), IntLiteral(8),
                  [hi |-> TwoTo16, lo |-> 1]}

IndexValue(v) == [name |-> "index", value |-> LiteralExpr(v)]

NonLiteralIndexValue == [name |-> "index", value |-> ObjectExpr]

EnabledValue == [name |-> "enabled", value |-> LiteralExpr(IntLiteral(1))]

\* the target initializers: with and without explicit index, with an index
\* that is not a literal, with two index keys, with an unknown key
TargetInitializers ==
    {<<IndexValue(v), EnabledValue>> : v \in IndexLiterals}
    \cup {<<>>,
          <<EnabledValue>>,
          <<[name |-> "writemask", value |-> LiteralExpr(IntLiteral(133))]>>,
          <<NonLiteralIndexValue>>,
          <<NonLiteralIndexValue, NonLiteralIndexValue>>,
          <<IndexValue(IntLiteral(8)), IndexValue(IntLiteral(7))>>,
          <<[name |-> "color", value |-> ObjectExpr]>>,
          <<[name |-> "blendop", value |-> ObjectExpr]>>}

\* the state values of a blend state initializer
BlendValues ==
    {[name |-> "target", value |-> StateInitializerExpr(exprs)] :
        exprs \in TargetInitializers}
    \cup {[name |-> "target", value |-> ObjectExpr],
          [name |-> "dither", value |-> LiteralExpr(IntLiteral(1))],
          [name |-> "independant", value |-> ObjectExpr],
          [name |-> "alphatocoverage", value |-> LiteralExpr(IntLiteral(1))]}

\* ReflectBlendStateTargetValue: acc = [target, reports]
ReflectBlendStateTargetValue(ast, acc) ==
    LET isLiteral == ast.value.kind = "LiteralExpr"
        isInitializer == ast.value.kind = "StateInitializerExpr"
        Error == [acc EXCEPT !.reports = @ + 1]
    IN  CASE ast.name = "enabled" ->
                IF isLiteral
                THEN [acc EXCEPT !.target.enabled = VariantBool(ast.value)]
                ELSE Error
          [] ast.name = "writemask" ->
                IF isLiteral
                THEN [acc EXCEPT !.target.writeMask = Int8(VariantInt(ast.value))]
                ELSE Error
          [] ast.name \in {"color", "alpha"} ->
                IF isInitializer
                THEN [acc EXCEPT !.target.colorOp = "decoded"]
                ELSE Error
          [] ast.name = "index" -> acc
          [] OTHER -> Error

RECURSIVE ReflectBlendStateTargetValues(_, _)
\* the loop over the initializer's exprs that decodes them into one target
ReflectBlendStateTargetValues(exprs, acc) ==
    IF exprs = <<>> THEN acc
    ELSE ReflectBlendStateTargetValues(Tail(exprs),
             ReflectBlendStateTargetValue(Head(exprs), acc))

RECURSIVE ScanTargetIndexInRangeOnly(_, _)
\* a scan that takes an explicit index only if it designates a target
ScanTargetIndexInRangeOnly(exprs, acc) ==
    IF exprs = <<>> THEN acc
    ELSE LET expr == Head(exprs)
             next == IF expr.name # "index" THEN acc
                     ELSE IF expr.value.kind = "LiteralExpr"
                          THEN IF UInt32(VariantInt(expr.value)).hi = 0
                                  /\ UInt32(VariantInt(expr.value)).lo
                                        < MAX_NUM_RENDER_TARGETS
                               THEN [acc EXCEPT !.idx = UInt32(VariantInt(expr.value))]
                               ELSE acc
                          ELSE [acc EXCEPT !.reports = @ + 1]
         IN  ScanTargetIndexInRangeOnly(Tail(exprs), next)

RECURSIVE ScanTargetIndex(_, _)
\* the first loop over the initializer's exprs: every "index" key with a
\* literal value repositions the cursor, every other "index" key is
\* reported; acc = [idx, reports]
ScanTargetIndex(exprs, acc) ==
    IF exprs = <<>> THEN acc
    ELSE LET expr == Head(exprs)
             next == IF expr.name # "index" THEN acc
                     ELSE IF expr.value.kind = "LiteralExpr"
                          THEN [acc EXCEPT !.idx = UInt32(VariantInt(expr.value))]
                          ELSE [acc EXCEPT !.reports = @ + 1]
         IN  ScanTargetIndex(Tail(exprs), next)

\* the number of "index" keys whose value is not a literal
RECURSIVE NumNonLiteralIndices(_)
NumNonLiteralIndices(exprs) ==
    IF exprs = <<>> THEN 0
    ELSE (IF Head(exprs).name = "index" /\ Head(exprs).value.kind # "LiteralExpr"
          THEN 1 ELSE 0) + NumNonLiteralIndices(Tail(exprs))

TargetInRangeInclusive(idx) == UInt32Less(idx, MAX_NUM_RENDER_TARGETS + 1)

\* if(blendTargetIdx < Reflection::BlendState::MAX_NUM_RENDER_TARGETS)
TargetInRange(idx) == UInt32Less(idx, MAX_NUM_RENDER_TARGETS)

\* blendState.targets[i] = target; an i past the array is outside the
\* record's targets
WriteTarget(targets, i, target) ==
    [k \in DOMAIN targets |-> IF k = i THEN target ELSE targets[k]]

\* ReflectBlendStateValue: the result of decoding ast with the record bs
\* and the cursor idx: the record and the cursor afterwards, the reports
\* submitted, the indices i for which bs.targets[i] was taken, and the
\* cursor after the scan for an explicit index
ReflectBlendStateValueResult(ast, bs, idx) ==
    LET isLiteral == ast.value.kind = "LiteralExpr"
        isInitializer == ast.value.kind = "StateInitializerExpr"
        same == [blendState |-> bs, idx |-> idx, reports |-> 0, writes |-> {},
                 targetIdx |-> idx]
        Error == [same EXCEPT !.reports = 1]
    IN  CASE ast.name = "dither" ->
                IF isLiteral
                THEN [same EXCEPT !.blendState.alphaToCoverage = VariantBool(ast.value)]
                ELSE Error
          [] ast.name = "independant" ->
                IF isLiteral
                THEN [same EXCEPT !.blendState.independantBlend = VariantBool(ast.value)]
                ELSE Error
          [] ast.name = "target" ->
                IF isInitializer
                THEN LET scan == ScanTargetIndex(ast.value.exprs,
                                                 [idx |-> idx, reports |-> 0])
                     IN  IF TargetInRange(scan.idx)
                         THEN LET i == scan.idx.lo
                                  old == IF i \in DOMAIN bs.targets THEN bs.targets[i]
                                         ELSE BlendStateTarget
                                  r == ReflectBlendStateTargetValues(ast.value.exprs,
                                           [target |-> old, reports |-> scan.reports])
                              IN  [blendState |-> [bs EXCEPT !.targets =
                                                      WriteTarget(@, i, r.target)],
                                   idx |-> UInt32Inc(scan.idx),
                                   reports |-> r.reports,
                                   writes |-> {i},
                                   targetIdx |-> scan.idx]
                         ELSE [same EXCEPT !.idx = scan.idx, !.reports = scan.reports,
                                           !.targetIdx = scan.idx]
                ELSE Error
          [] OTHER -> Error

\* VisitStateDecl up to the loop of case Blend: a declaration without
\* initializer returns, one with an initializer resets the cursor
VisitStateDecl ==
    \E hasInitializer \in BOOLEAN, n \in 0..MaxValues :
        /\ valuesLeft = 0
        /\ numStateDecls < MaxStateDecls
        /\ numStateDecls' = numStateDecls + 1
        /\ IF hasInitializer
           THEN /\ blendTargetIdx' = UInt32(IntLiteral(0))
                /\ valuesLeft' = n
           ELSE UNCHANGED <<blendTargetIdx, valuesLeft>>
        /\ UNCHANGED <<blendState, lastValue>>
        /\ UNCHANGED <<shaderTarget, uniformVars, functionVars, convertVars,
                         extraVars>>

\* one iteration of the loop of case Blend
ReflectBlendStateValue ==
    \E ast \in BlendValues :
        LET r == ReflectBlendStateValueResult(ast, blendState, blendTargetIdx)
        IN  /\ valuesLeft > 0
            /\ valuesLeft' = valuesLeft - 1
            /\ blendState' = r.blendState
            /\ blendTargetIdx' = r.idx
            /\ lastValue' = [name |-> ast.name,
                             isInitializer |-> ast.value.kind = "StateInitializerExpr",
                             targetIdx |-> r.targetIdx,
                             nonLiteralIndices |->
                                 IF ast.value.kind = "StateInitializerExpr"
                                 THEN NumNonLiteralIndices(ast.value.exprs) ELSE 0,
                             reports |-> r.reports,
                             writes |-> r.writes,
                             targetsChanged |-> r.blendState.targets # blendState.targets,
                             ast |-> ast]
            /\ UNCHANGED numStateDecls
            /\ UNCHANGED <<shaderTarget, uniformVars, functionVars, convertVars,
                         extraVars>>

InitStates ==
    /\ shaderTarget = "VertexShader"
    /\ InitUniformsIdle /\ InitStatesIdle /\ InitFunctionsIdle
    /\ InitExtraIdle
    /\ InitConvertIdle

NextStates ==
    \/ VisitStateDecl
    \/ ReflectBlendStateValue

SpecStates == InitStates /\ [][NextStates]_vars

(***************************************************************************)
(* Claims on blend state decoding (SpecStates).                            *)
(***************************************************************************)
\* the latest state value was a target entry with an initializer whose
\* effective index is MAX_NUM_RENDER_TARGETS or more
IgnoredTarget ==
    /\ lastValue.name = "target"
    /\ lastValue.isInitializer
    /\ ~UInt32Less(lastValue.targetIdx, MAX_NUM_RENDER_TARGETS)

\* C9 as stated: no element of targets outside 0..7 is written, and a
\* target entry whose effective index is 8 or more leaves all eight targets
\* unchanged and reports no error.
C9_IgnoredTargetSilent ==
    /\ lastValue.writes \subseteq 0..(MAX_NUM_RENDER_TARGETS - 1)
    /\ IgnoredTarget => (~lastValue.targetsChanged /\ lastValue.reports = 0)

\* C9, amended: no element of targets outside 0..7 is written, and a
\* target entry whose effective index is 8 or more leaves all eight targets
\* unchanged and reports nothing but one error for each of its index keys
\* whose value is not a literal.
C9_IgnoredTargetUnchanged ==
    /\ lastValue.writes \subseteq 0..(MAX_NUM_RENDER_TARGETS - 1)
    /\ IgnoredTarget => (/\ ~lastValue.targetsChanged
                          /\ lastValue.reports = lastValue.nonLiteralIndices)

\* target 7 was written, and the next target entry, whose index key is not
\* a literal, is ignored at cursor 8
C9_Witness ==
    /\ IgnoredTarget
    /\ lastValue.targetIdx = UInt32(IntLiteral(8))
    /\ lastValue.nonLiteralIndices > 0
    /\ blendState.targets[7].enabled

(***************************************************************************)
(* ReflectionAnalyzer::VisitFunctionDecl                                   *)
(***************************************************************************)
MaxFunctions == 2       \* function declarations of one program

\* ExprEvaluator::EvaluateOrDefault: the value of a constant expression,
\* the default for an expression that does not reduce to one
EvaluateOrDefault(expr, default) ==
    IF expr.kind = "LiteralExpr" THEN VariantInt(expr) ELSE default

EvaluateConstExprInt(expr) == Int32(EvaluateOrDefault(expr, IntLiteral(0)))

\* DataTypeToVarType on the data types the model declares functions with;
\* every DataType without a CONVERSION_ENTRY maps to Undefined
DataTypeToVarType(dataType) ==
    IF dataType \in {"Float4", "UInt3", "Int"} THEN dataType ELSE "Undefined"

WritesNumThreadsOnAnyTarget(target, ast) == Len(ast.arguments) = 3

\* shaderTarget_ == ShaderTarget::ComputeShader && ast->arguments.size() == 3
WritesNumThreads(target, ast) ==
    target = "ComputeShader" /\ Len(ast.arguments) = 3

ReflectAttributesNumThreads(ast, nt) ==
    IF WritesNumThreads(shaderTarget, ast)
    THEN [x |-> EvaluateConstExprInt(ast.arguments[1]),
          y |-> EvaluateConstExprInt(ast.arguments[2]),
          z |-> EvaluateConstExprInt(ast.arguments[3])]
    ELSE nt

RECURSIVE ReflectAttributes(_, _)
ReflectAttributes(attribs, nt) ==
    IF attribs = <<>> THEN nt
    ELSE ReflectAttributes(Tail(attribs),
             IF Head(attribs).attributeType = "NumThreads"
             THEN ReflectAttributesNumThreads(Head(attribs), nt)
             ELSE nt)

\* attribute arguments: literals 10, 1, -2 and an expression that is not
\* constant
Lit(v) == LiteralExpr(IntLiteral(v))

Attribute(attributeType, arguments) ==
    [attributeType |-> attributeType, arguments |-> arguments]

\* the attribute lists of a function's declaration statement
AttributeLists ==
    {<<>>,
     <<Attribute("NumThreads", <<Lit(10), Lit(1), Lit(1)>>)>>,
     <<Attribute("NumThreads", <<Lit(8), Lit(8)>>)>>,
     <<Attribute("NumThreads", <<Lit(4), ObjectExpr, Lit(-2)>>)>>,
     <<Attribute("Unroll", <<Lit(1), Lit(2), Lit(3)>>)>>,
     <<Attribute("NumThreads", <<Lit(1), Lit(2), Lit(3)>>),
       Attribute("NumThreads", <<Lit(4), Lit(5), Lit(6), Lit(7)>>)>>,
     <<Attribute("NumThreads", <<Lit(1), Lit(2), Lit(3)>>),
       Attribute("Unroll", <<>>),
       Attribute("NumThreads", <<Lit(3), Lit(2), Lit(1)>>)>>}

NoTypeSpecifier == [kind |-> "None"]

\* return type and parameters of the functions declared
Signatures ==
    {[ident |-> "CS", returnType |-> [kind |-> "Void"],
      parameters |-> <<[typeSpecifier |-> [kind |-> "Base", dataType |-> "UInt3",
                                           isInput |-> TRUE, isOutput |-> FALSE],
                        varDecls |-> <<"threadID">>]>>],
     [ident |-> "VS", returnType |-> [kind |-> "Base", dataType |-> "Float4"],
      parameters |-> <<[typeSpecifier |-> [kind |-> "Struct", dataType |-> "Undefined",
                                           isInput |-> TRUE, isOutput |-> TRUE],
                        varDecls |-> <<"inp">>],
                       [typeSpecifier |-> NoTypeSpecifier, varDecls |-> <<>>]>>],
     [ident |-> "f", returnType |-> NoTypeSpecifier,
      parameters |-> <<[typeSpecifier |-> NoTypeSpecifier, varDecls |-> <<"s">>]>>]}

\* Reflection::Parameter::Flags as a number
ParameterFlags(typeSpecifier) ==
    (IF typeSpecifier.isInput THEN 1 ELSE 0) + (IF typeSpecifier.isOutput THEN 2 ELSE 0)

RECURSIVE ReflectParameters(_, _, _)
\* the loop over ast->parameters; uninit is the content of the flags field
\* of a Parameter that the loop leaves unassigned
ReflectParameters(parameters, uninit, acc) ==
    IF parameters = <<>> THEN acc
    ELSE LET entry == Head(parameters)
             hasType == entry.typeSpecifier.kind # "None"
             param == [ident |-> entry.varDecls[1],
                       type |-> IF hasType /\ entry.typeSpecifier.kind = "Base"
                                THEN DataTypeToVarType(entry.typeSpecifier.dataType)
                                ELSE "Undefined",
                       flags |-> IF hasType THEN ParameterFlags(entry.typeSpecifier)
                                 ELSE uninit]
         IN  ReflectParameters(Tail(parameters), uninit,
                 IF Len(entry.varDecls) = 0 THEN acc ELSE Append(acc, param))

VisitFunctionDecl ==
    \E sig \in Signatures, isEntryPoint \in BOOLEAN, attribs \in AttributeLists,
       uninit \in 0..3 :
        LET ast == [ident |-> sig.ident, returnType |-> sig.returnType,
                    parameters |-> sig.parameters, isEntryPoint |-> isEntryPoint,
                    attribs |-> attribs]
            function == [ident |-> ast.ident,
                         returnValue |->
                             IF ast.returnType.kind = "None" THEN "Void"
                             ELSE IF ast.returnType.kind = "Base"
                                  THEN DataTypeToVarType(ast.returnType.dataType)
                                  ELSE "Undefined",
                         parameters |-> ReflectParameters(ast.parameters, uninit, <<>>)]
        IN  /\ Len(fnVisited) < MaxFunctions
            /\ isEntryPoint => \A k \in 1..Len(fnVisited) : ~fnVisited[k].ast.isEntryPoint
            /\ (uninit # 0) => \E k \in 1..Len(ast.parameters) :
                                   /\ ast.parameters[k].typeSpecifier.kind = "None"
                                   /\ ast.parameters[k].varDecls # <<>>
            /\ numThreads' = IF ast.isEntryPoint
                             THEN ReflectAttributes(ast.attribs, numThreads)
                             ELSE numThreads
            /\ functions' = Append(functions, function)
            /\ fnVisited' = Append(fnVisited, [ast |-> ast, before |-> numThreads])
            /\ UNCHANGED <<shaderTarget, uniformVars, stateVars, convertVars,
                         extraVars>>

InitFunctions ==
    /\ shaderTarget \in ShaderTargets
    /\ InitUniformsIdle /\ InitStatesIdle /\ InitFunctionsIdle
    /\ InitExtraIdle
    /\ InitConvertIdle

NextFunctions == VisitFunctionDecl

SpecFunctions == InitFunctions /\ [][NextFunctions]_vars

(***************************************************************************)
(* Claims on the numthreads attribute (SpecFunctions).                     *)
(***************************************************************************)
\* numThreads after the k-th function declaration visited
NumThreadsAfter(k) ==
    IF k < Len(fnVisited) THEN fnVisited[k + 1].before ELSE numThreads

\* the positions of the numthreads attributes with exactly three arguments
ThreeArgNumThreads(attribs) ==
    {i \in 1..Len(attribs) : /\ attribs[i].attributeType = "NumThreads"
                             /\ Len(attribs[i].arguments) = 3}

\* the integer value of an attribute argument, 0 for one that does not
\* evaluate to an integer
ArgumentValue(expr) ==
    IF expr.kind = "LiteralExpr" THEN expr.value.hi * TwoTo16 + expr.value.lo ELSE 0

\* C10: numThreads is written iff the visited function is the entry point,
\* carries a numthreads attribute with exactly three arguments and the
\* target is the compute shader; otherwise it keeps its previous value
\* (zeros on a fresh record); when written, x, y, z are the integer values
\* of the three arguments in order, 0 for an argument that does not
\* evaluate to an integer.
C10_NumThreads ==
    /\ fnVisited # <<>> => fnVisited[1].before = [x |-> 0, y |-> 0, z |-> 0]
    /\ fnVisited = <<>> => numThreads = [x |-> 0, y |-> 0, z |-> 0]
    /\ \A k \in 1..Len(fnVisited) :
          LET ast == fnVisited[k].ast
              three == ThreeArgNumThreads(ast.attribs)
          IN  IF ast.isEntryPoint /\ shaderTarget = "ComputeShader" /\ three # {}
              THEN \E i \in three :
                      /\ \A j \in three : j <= i
                      /\ NumThreadsAfter(k).x = ArgumentValue(ast.attribs[i].arguments[1])
                      /\ NumThreadsAfter(k).y = ArgumentValue(ast.attribs[i].arguments[2])
                      /\ NumThreadsAfter(k).z = ArgumentValue(ast.attribs[i].arguments[3])
              ELSE NumThreadsAfter(k) = fnVisited[k].before

\* the compute entry point with numthreads(4, <not constant>, -2), then a
\* function that is not the entry point and carries numthreads(10, 1, 1)
C10_Witness ==
    /\ shaderTarget = "ComputeShader"
    /\ Len(fnVisited) = 2
    /\ fnVisited[1].ast.isEntryPoint
    /\ fnVisited[2].before = [x |-> 4, y |-> 0, z |-> -2]
    /\ ThreeArgNumThreads(fnVisited[2].ast.attribs) # {}
    /\ numThreads = [x |-> 4, y |-> 0, z |-> -2]

(***************************************************************************)
(* SpecConvert: GLSLConverter::Convert walking one program.                *)
(*                                                                         *)
(* An identifier is the sequence of the pieces of its final spelling, so   *)
(* that a prefix put in front of it stays visible: "xsr_" + "sampler" is   *)
(* <<"xsr_", "sampler">>, which is also how a source identifier spelled    *)
(* xsr_sampler is written.  An AST node is a record: its kind, its         *)
(* identifier, its flags, pos (its place in the statement list that holds  *)
(* it, 0 for a node the converter made), n (a count that depends on the    *)
(* kind) and ref (k when the node is the k-th globally reserved            *)
(* declaration, else 0).                                                   *)
(***************************************************************************)
MaxNodes == 3        \* compound nodes below the program node

Node(kind, ident, flags) ==
    [kind |-> kind, ident |-> ident, flags |-> flags, pos |-> 0, n |-> 0,
     ref |-> 0]

\* the name-mangling configuration handed to Convert
NameMangling ==
    [inputPrefix |-> "xsv_", outputPrefix |-> "xsv_",
     reservedWordPrefix |-> "xsr_", temporaryPrefix |-> "xst_",
     namespacePrefix |-> "xsn_"]

\* the target's reserved words that the model's programs can spell
ReservedGLSLKeywords == {"sampler", "input"}

\* Identifier::AppendPrefix: the prefix goes in front of the final spelling
AppendPrefix(ident, prefix) == <<prefix>> \o ident

\* ident.Final().compare(0, 3, "gl_") == 0
BeginsWithGl(ident) == ident # <<>> /\ Head(ident) = "gl_"

\* reservedKeywords.find(ident) != reservedKeywords.end()
IsReservedKeyword(ident) ==
    Len(ident) = 1 /\ ident[1] \in ReservedGLSLKeywords

\* RenameReservedKeyword: the identifier and the obfuscation counter after it
RenameReservedKeywordSameNumber(ident, counter) ==
    IF options.obfuscate
    THEN [ident |-> <<"_", ToString(counter)>>, counter |-> counter]
    ELSE IF IsReservedKeyword(ident) \/ BeginsWithGl(ident)
         THEN [ident |-> AppendPrefix(ident, NameMangling.reservedWordPrefix),
               counter |-> counter]
         ELSE [ident |-> ident, counter |-> counter]

RenameReservedKeyword(ident, counter) ==
    IF options.obfuscate
    THEN [ident |-> <<"_", ToString(counter)>>, counter |-> counter + 1]
    ELSE IF IsReservedKeyword(ident) \/ BeginsWithGl(ident)
         THEN [ident |-> AppendPrefix(ident, NameMangling.reservedWordPrefix),
               counter |-> counter]
         ELSE [ident |-> ident, counter |-> counter]

(***************************************************************************)
(* Symbol table: a stack of scopes, each the set of identifiers bound in   *)
(* it.  scopeDecls keeps, for every open scope, the final identifiers of   *)
(* the declarations registered in it, one entry per declaration.           *)
(***************************************************************************)
\* the table before the program visit: the scope of the global declarations
GlobalScopes == <<{}>>

OpenScope(table) == Append(table, {})

\* a CloseScope that leaves the innermost scope open
CloseScopeKeeping(table) == table

CloseScope(table) == SubSeq(table, 1, Len(table) - 1)

\* SymbolTable::Register binds the identifier in the innermost scope
Register(table, ident) ==
    [table EXCEPT ![Len(table)] = @ \cup {ident}]

\* the same registration in the per-scope list of declarations
RecordDecl(decls, ident) ==
    [decls EXCEPT ![Len(decls)] = Append(@, ident)]

\* SymbolTable::FetchFromCurrentScope looks at the innermost scope only
FetchFromCurrentScope(table, ident) ==
    table # <<>> /\ ident \in table[Len(table)]

\* VisitorTracker::InsideStructDecl, InsideEntryPoint
InsideStructDecl == structDeclStack # <<>>

InsideEntryPoint ==
    /\ funcDeclStack # <<>>
    /\ "isEntryPoint" \in funcDeclStack[Len(funcDeclStack)].flags

\* ActiveSelfParameter() != nullptr
ActiveSelfParameter == selfParamStack # <<>>

\* the first globally reserved declaration with this final identifier, or 0
RECURSIVE FindReserved(_, _, _)
FindReserved(reserved, ident, k) ==
    IF k > Len(reserved) THEN 0
    ELSE IF reserved[k].ident = ident THEN k
    ELSE FindReserved(reserved, ident, k + 1)

\* MustRenameDeclIdent
MustRenameDeclIdent(obj, reserved, table) ==
    IF obj.kind = "VarDecl"
    THEN IF InsideStructDecl \/ "isShaderInput" \in obj.flags
         THEN FALSE
         ELSE LET it == FindReserved(reserved, obj.ident, 1) IN
              IF it # 0
              THEN it # obj.ref
              ELSE FetchFromCurrentScope(table, obj.ident)
    ELSE FetchFromCurrentScope(table, obj.ident)

\* RenameIdent / RenameDeclIdent
RenameDeclIdent(ident) == AppendPrefix(ident, NameMangling.temporaryPrefix)

\* the identifier RegisterDeclIdent leaves on the declaration, and the counter
DeclIdent(obj, reserved, table, counter) ==
    RenameReservedKeyword(
        IF MustRenameDeclIdent(obj, reserved, table)
        THEN RenameDeclIdent(obj.ident) ELSE obj.ident,
        counter)

(***************************************************************************)
(* The programs the converter is run on.  A list of statements or members  *)
(* is chosen when the node that owns it is entered; the compound nodes in  *)
(* it are paid from nodesLeft, so a program holds at most MaxNodes of      *)
(* them and every node chosen is visited.                                  *)
(***************************************************************************)
\* statements that open a scope around their body
ScopedStmntKinds ==
    {"ForLoopStmnt", "WhileLoopStmnt", "DoWhileLoopStmnt", "IfStmnt",
     "ElseStmnt", "SwitchStmnt"}

CompoundKinds ==
    ScopedStmntKinds \cup {"StructDecl", "FunctionDecl", "CodeBlockStmnt",
                           "SwitchCase"}

RECURSIVE Cost(_)
Cost(nodes) ==
    IF nodes = <<>> THEN 0
    ELSE (IF Head(nodes).kind \in CompoundKinds THEN 1 ELSE 0)
         + Cost(Tail(nodes))

\* the place of every statement in its list
Tag(stmnts) == [i \in DOMAIN stmnts |-> [stmnts[i] EXCEPT !.pos = i]]

\* identifiers of local variables and of structure members
VarIdents ==
    {<<"x">>, <<"sampler">>, <<"xsr_", "sampler">>, <<"gl_", "x">>,
     <<"xsr_", "gl_", "x">>}

VarDeclStmnt(ident) == Node("VarDeclStmnt", ident, {})

\* float a[2] = { ... }
ArrayDeclStmnt ==
    [Node("VarDeclStmnt", <<"a">>, {"arrayInitializer"}) EXCEPT !.n = 2]

\* saturate(x), saturate(s) with s a structure, saturate(x, y), m(), obj.m()
CallExprs ==
    {[Node("CallExpr", <<"saturate">>, {"intrinsic", "baseArg"}) EXCEPT !.n = 1],
     [Node("CallExpr", <<"saturate">>, {"intrinsic"}) EXCEPT !.n = 1],
     [Node("CallExpr", <<"saturate">>, {"intrinsic", "baseArg"}) EXCEPT !.n = 2],
     Node("CallExpr", <<"m">>, {"member"}),
     Node("CallExpr", <<"m">>, {"member", "prefix"})}

ReturnStmnt == Node("ReturnStmnt", <<>>, {})

\* a statement the front end found unreachable
DeadStmnt == Node("ReturnStmnt", <<>>, {"isDeadCode"})

CompoundStmnts ==
    {Node(k, <<>>, {}) : k \in (ScopedStmntKinds \ {"ElseStmnt"})
                               \cup {"CodeBlockStmnt"}}

\* the statement lists of code blocks and switch cases: the empty list, one
\* statement of any kind, a compound statement with a statement after it,
\* declarations whose identifiers the converter may have to change, and
\* lists with dead statements at the front, in the middle and at the end
StmntMenu ==
    {<<>>}
    \cup {<<st>> : st \in {VarDeclStmnt(id) : id \in VarIdents}
                          \cup CallExprs \cup CompoundStmnts
                          \cup {ArrayDeclStmnt, ReturnStmnt, DeadStmnt}}
    \cup {<<st, ReturnStmnt>> : st \in CompoundStmnts}
    \cup {<<VarDeclStmnt(<<"xsr_", "sampler">>), VarDeclStmnt(<<"sampler">>)>>,
          <<VarDeclStmnt(<<"sampler">>), VarDeclStmnt(<<"xsr_", "sampler">>)>>,
          <<VarDeclStmnt(<<"xsr_", "gl_", "x">>), VarDeclStmnt(<<"gl_", "x">>)>>,
          <<DeadStmnt, DeadStmnt>>,
          <<ReturnStmnt, DeadStmnt, DeadStmnt>>,
          <<DeadStmnt, ArrayDeclStmnt, DeadStmnt, DeadStmnt, ReturnStmnt>>,
          <<VarDeclStmnt(<<"x">>), DeadStmnt, VarDeclStmnt(<<"gl_", "x">>)>>}

StmntLists(budget) ==
    {Tag(l) : l \in {m \in StmntMenu : Cost(m) <= budget}}

\* the body of a loop, of an if or of an else
Bodies(budget) ==
    {ReturnStmnt}
    \cup (IF budget > 0 THEN {Node("CodeBlockStmnt", <<>>, {})} ELSE {})

\* the variable members of a structure; s and t are sampler states
VarMemberLists ==
    {Tag(l) : l \in
        {<<>>,
         <<VarDeclStmnt(<<"x">>)>>,
         <<VarDeclStmnt(<<"sampler">>)>>,
         <<Node("VarDeclStmnt", <<"s">>, {"samplerState"})>>,
         <<Node("VarDeclStmnt", <<"s">>, {"samplerState"}),
           Node("VarDeclStmnt", <<"t">>, {"samplerState"})>>,
         <<Node("VarDeclStmnt", <<"s">>, {"samplerState"}),
           VarDeclStmnt(<<"x">>)>>}}

\* the member functions of a structure
FuncMemberLists(budget) ==
    {<<>>}
    \cup (IF budget > 0
          THEN {<<Node("FunctionDecl", <<"m">>, {"member"})>>,
                <<Node("FunctionDecl", <<"m">>, {"member", "static"})>>}
          ELSE {})

\* the global statements: the entry point, after structures (named or
\* anonymous) and other functions
EntryPointDecl == Node("FunctionDecl", <<"main">>, {"isEntryPoint"})

GlobalStmntLists(budget) ==
    {l \o <<EntryPointDecl>> : l \in
        {m \in {<<>>,
                <<Node("StructDecl", <<"S">>, {})>>,
                <<Node("StructDecl", <<>>, {})>>,
                <<Node("FunctionDecl", <<"input">>, {})>>,
                <<Node("StructDecl", <<>>, {}), Node("StructDecl", <<>>, {})>>,
                <<Node("StructDecl", <<"S">>, {}),
                  Node("FunctionDecl", <<"f">>, {})>>} :
            Cost(m) < budget}}

\* a variable of the entry point's input or output semantics
SemanticVar(ident, semantic, flags) ==
    [kind |-> "VarDecl", ident |-> ident, semantic |-> semantic,
     flags |-> flags, ref |-> 0]

\* the entry point's semantics: none, or one input, one output and one
\* system-value output
EntryPoints ==
    {[inputs |-> <<>>, outputs |-> <<>>, inputsSV |-> <<>>, outputsSV |-> <<>>],
     [inputs |-> <<SemanticVar(<<"x">>, "COLOR", {"isShaderInput"})>>,
      outputs |-> <<SemanticVar(<<"y">>, "COLOR", {})>>,
      inputsSV |-> <<>>,
      outputsSV |-> <<SemanticVar(<<"pos">>, "SV_Position", {})>>]}

(***************************************************************************)
(* Helpers of the visit procedures.                                        *)
(***************************************************************************)
\* RenameInOutVarIdents
RenameInOutVarIdents(varDecls, input, useSemanticOnly) ==
    [i \in DOMAIN varDecls |->
        [varDecls[i] EXCEPT !.ident =
            IF useSemanticOnly THEN <<varDecls[i].semantic>>
            ELSE IF input
                 THEN <<NameMangling.inputPrefix, varDecls[i].semantic>>
                 ELSE <<NameMangling.outputPrefix, varDecls[i].semantic>>]]

\* the switch over shaderTarget_ at the start of VisitProgram
\* a vertex stage whose inputs are renamed whatever useAlwaysSemantics says
RenameEntryPointInputsAlways(entryPoint, target, useAlwaysSemantics) ==
    [entryPoint EXCEPT
        !.inputs = RenameInOutVarIdents(@, TRUE, target = "VertexShader"),
        !.outputs = RenameInOutVarIdents(@, FALSE, FALSE)]

RenameEntryPoint(entryPoint, target, useAlwaysSemantics) ==
    CASE target = "VertexShader" ->
            [entryPoint EXCEPT
                !.inputs = IF useAlwaysSemantics
                           THEN RenameInOutVarIdents(@, TRUE, TRUE) ELSE @,
                !.outputs = RenameInOutVarIdents(@, FALSE, FALSE)]
      [] target = "FragmentShader" ->
            [entryPoint EXCEPT
                !.inputs = RenameInOutVarIdents(@, TRUE, FALSE),
                !.outputs = IF useAlwaysSemantics
                            THEN RenameInOutVarIdents(@, FALSE, TRUE) ELSE @]
      [] OTHER ->
            [entryPoint EXCEPT
                !.inputs = RenameInOutVarIdents(@, TRUE, FALSE),
                !.outputs = RenameInOutVarIdents(@, FALSE, FALSE)]

\* RegisterGlobalDeclIdents: RegisterDeclIdent(varDecl, true) for each
RECURSIVE RegisterGlobalDeclIdents(_, _)
RegisterGlobalDeclIdents(varDecls, acc) ==
    IF varDecls = <<>> THEN acc
    ELSE LET obj == [Head(varDecls) EXCEPT !.ref = Len(acc.reserved) + 1]
             r == DeclIdent(obj, acc.reserved, symTable, acc.counter)
         IN  RegisterGlobalDeclIdents(Tail(varDecls),
                 [reserved |-> Append(acc.reserved,
                                      [obj EXCEPT !.ident = r.ident]),
                  counter |-> r.counter])

\* LabelAnonymousStructDecl: the identifier and anonymCounter_ after it
LabelAnonymousStructDecl(ident, counter) ==
    IF ident = <<>>
    THEN [ident |-> <<NameMangling.temporaryPrefix, "anonym",
                      ToString(counter)>>,
          counter |-> counter + 1]
    ELSE [ident |-> ident, counter |-> counter]

\* MakeCodeBlockInEntryPointReturnStmnt
MakeCodeBlockInEntryPointReturnStmnt(stmnt) ==
    IF InsideEntryPoint /\ stmnt.kind = "ReturnStmnt"
    THEN Node("CodeBlockStmnt", <<>>, {"wrapsReturn"})
    ELSE stmnt

RemoveAt(stmnts, i) ==
    SubSeq(stmnts, 1, i - 1) \o SubSeq(stmnts, i + 1, Len(stmnts))

\* a loop that would step over the element behind an erased one
AfterEraseSkipping(i) == i + 1

\* it = stmnts.erase(it): the position of the element behind the erased one
AfterErase(i) == i

\* RemoveDeadCode
RECURSIVE RemoveDeadCodeFrom(_, _)
RemoveDeadCodeFrom(stmnts, i) ==
    IF i > Len(stmnts) THEN stmnts
    ELSE IF "isDeadCode" \in stmnts[i].flags
         THEN RemoveDeadCodeFrom(RemoveAt(stmnts, i), AfterErase(i))
         ELSE RemoveDeadCodeFrom(stmnts, i + 1)

RemoveDeadCode(stmnts) == RemoveDeadCodeFrom(stmnts, 1)

\* UnrollStmntsVarDecl: one assignment for each element of the initializer
UnrollStmntsVarDecl(ast) ==
    IF "arrayInitializer" \in ast.flags
    THEN [k \in 1..ast.n |->
            [Node("ArrayAssignStmnt", ast.ident, {}) EXCEPT !.n = k]]
    ELSE <<>>

\* UnrollStmnts
RECURSIVE UnrollStmntsFrom(_, _)
UnrollStmntsFrom(stmnts, i) ==
    IF i > Len(stmnts) THEN stmnts
    ELSE LET unrolledStmnts ==
                 IF stmnts[i].kind = "VarDeclStmnt"
                    /\ options.unrollArrayInitializers
                 THEN UnrollStmntsVarDecl(stmnts[i]) ELSE <<>>
             stripped ==
                 IF unrolledStmnts # <<>>
                 THEN [stmnts EXCEPT ![i].flags = @ \ {"arrayInitializer"}]
                 ELSE stmnts
         IN  UnrollStmntsFrom(
                 SubSeq(stripped, 1, i) \o unrolledStmnts
                     \o SubSeq(stripped, i + 1, Len(stripped)),
                 i + 1 + Len(unrolledStmnts))

UnrollStmnts(stmnts) == UnrollStmntsFrom(stmnts, 1)

\* RemoveSamplerStateVarDeclStmnts
RemoveSamplerStateVarDeclStmnts(stmnts) ==
    SelectSeq(stmnts, LAMBDA st : "samplerState" \notin st.flags)

\* StructDecl::NumMemberVariables: the declarators of the member statements
NumMemberVariables(varMembers) == Len(varMembers)

\* a structure counted before its sampler-state members are stripped
MembersCountedBeforeStripping(varMembers, stripped) == varMembers

\* the member list VisitStructDecl counts: the one left after stripping
MembersCounted(varMembers, stripped) == stripped

\* MakeVarDeclStmnt(DataType::Int, temporaryPrefix + "dummy")
DummyMember ==
    Node("VarDeclStmnt", <<NameMangling.temporaryPrefix, "dummy">>, {"int"})

\* the members of a structure after VisitStructDecl
StructMembersAfter(varMembers) ==
    LET stripped == IF ~isVKSL
                    THEN RemoveSamplerStateVarDeclStmnts(varMembers)
                    ELSE varMembers
    IN  IF NumMemberVariables(MembersCounted(varMembers, stripped)) = 0
        THEN Append(stripped, DummyMember)
        ELSE stripped

\* the 'self' parameter ConvertFunctionDecl puts in front of the parameters
SelfParam ==
    Node("VarDeclStmnt", <<NameMangling.namespacePrefix, "self">>,
         {"isSelfParameter"})

\* ConvertFunctionDecl makes a 'self' parameter for this function
HasSelfParam(ast) == "member" \in ast.flags /\ "static" \notin ast.flags

\* VisitCodeBlockStmnt opens (and closes) a scope unless told not to
OpensScope(ast) == "disableNewScope" \notin ast.flags

\* ConvertIntrinsicCallSaturate and ConvertFunctionCall: the call raises
\* a runtime error
RaisesRuntimeErr(ast) ==
    IF "intrinsic" \in ast.flags
    THEN ~(ast.n = 1 /\ "baseArg" \in ast.flags)
    ELSE /\ "member" \in ast.flags
         /\ "static" \notin ast.flags
         /\ "prefix" \notin ast.flags
         /\ ~ActiveSelfParameter

(***************************************************************************)
(* The walk.  frames is the stack of visits in progress, innermost first;  *)
(* a frame holds the node it visits and the children its default descent   *)
(* has not reached yet.  A Visit... action is the visit procedure up to    *)
(* and including the start of its descent; the matching ...End action is   *)
(* the rest of the procedure, taken when the descent has returned.         *)
(***************************************************************************)
Frame(ast, todo) ==
    [kind |-> ast.kind, node |-> ast, todo |-> todo, stmnts |-> <<>>]

\* the next child of the innermost visit is of this kind
Visiting(kind) ==
    /\ status = "running"
    /\ frames # <<>>
    /\ Head(frames).todo # <<>>
    /\ Head(Head(frames).todo).kind = kind

\* the descent of the innermost visit, of a node of this kind, has returned
Leaving(kinds) ==
    /\ status = "running"
    /\ frames # <<>>
    /\ Head(frames).todo = <<>>
    /\ Head(frames).kind \in kinds

Child == Head(Head(frames).todo)

\* the stack once the next child is taken from the innermost visit
Rest == <<[Head(frames) EXCEPT !.todo = Tail(@)]>> \o Tail(frames)

Pop(stack) == SubSeq(stack, 1, Len(stack) - 1)

NoLogs ==
    /\ lastBlock' = NoBlock
    /\ lastStruct' = NoStruct
    /\ lastDecl' = NoDecl

Fixed ==
    UNCHANGED <<shaderTarget, uniformVars, stateVars, functionVars,
                isVKSL, options, extraVars>>

\* IMPLEMENT_VISIT_PROC(Program), up to VISIT_DEFAULT(Program)
VisitProgram ==
    /\ status = "idle"
    /\ \E entryPoint \in EntryPoints, stmnts \in GlobalStmntLists(MaxNodes) :
         LET ep == RenameEntryPoint(entryPoint, shaderTarget,
                                    options.useAlwaysSemantics)
             r1 == RegisterGlobalDeclIdents(ep.inputs,
                       [reserved |-> globalReservedDecls,
                        counter |-> obfuscationCounter])
             r2 == RegisterGlobalDeclIdents(ep.outputs, r1)
             r3 == RegisterGlobalDeclIdents(ep.inputsSV, r2)
             r4 == RegisterGlobalDeclIdents(ep.outputsSV, r3)
         IN  /\ globalReservedDecls' = r4.reserved
             /\ obfuscationCounter' = r4.counter
             /\ frames' = <<Frame(Node("Program", <<>>, {}), stmnts)>>
             /\ nodesLeft' = MaxNodes - Cost(stmnts)
    /\ status' = "running"
    /\ NoLogs
    /\ UNCHANGED <<symTable, scopeDecls, funcDeclStack, structDeclStack,
                   selfParamStack, anonymCounter>>
    /\ Fixed

\* IMPLEMENT_VISIT_PROC(Program), after VISIT_DEFAULT(Program), and the
\* return of Visit(program_) to Convert; the programs walked here declare
\* no global sampler, so MoveAllIf finds nothing to move
VisitProgramEnd ==
    /\ Leaving({"Program"})
    /\ frames' = Tail(frames)
    /\ status' = "done"
    /\ NoLogs
    /\ UNCHANGED <<nodesLeft, symTable, scopeDecls, funcDeclStack,
                   structDeclStack, selfParamStack, globalReservedDecls,
                   obfuscationCounter, anonymCounter>>
    /\ Fixed

\* IMPLEMENT_VISIT_PROC(StructDecl), up to VISIT_DEFAULT(StructDecl)
VisitStructDecl ==
    /\ Visiting("StructDecl")
    /\ \E varMembers \in VarMemberLists, funcMembers \in FuncMemberLists(nodesLeft) :
         LET lab == LabelAnonymousStructDecl(Child.ident, anonymCounter)
             r == RenameReservedKeyword(lab.ident, obfuscationCounter)
             ast == [Child EXCEPT !.ident = r.ident]
         IN  /\ anonymCounter' = lab.counter
             /\ obfuscationCounter' = r.counter
             /\ structDeclStack' = Append(structDeclStack, ast)
             /\ symTable' = OpenScope(symTable)
             /\ scopeDecls' = Append(scopeDecls, <<>>)
             /\ frames' = <<[Frame(ast, varMembers \o funcMembers)
                               EXCEPT !.stmnts = varMembers]>> \o Rest
             /\ nodesLeft' = nodesLeft - Cost(funcMembers)
             /\ lastDecl' = [visited |-> TRUE, kind |-> "StructDecl",
                             original |-> Child.ident, ident |-> r.ident]
    /\ lastBlock' = NoBlock
    /\ lastStruct' = NoStruct
    /\ UNCHANGED <<status, funcDeclStack, selfParamStack, globalReservedDecls>>
    /\ Fixed

\* IMPLEMENT_VISIT_PROC(StructDecl), after VISIT_DEFAULT(StructDecl)
VisitStructDeclEnd ==
    /\ Leaving({"StructDecl"})
    /\ symTable' = CloseScope(symTable)
    /\ scopeDecls' = Pop(scopeDecls)
    /\ structDeclStack' = Pop(structDeclStack)
    /\ lastStruct' = [visited |-> TRUE, before |-> Head(frames).stmnts,
                      after |-> StructMembersAfter(Head(frames).stmnts)]
    /\ frames' = Tail(frames)
    /\ lastBlock' = NoBlock
    /\ lastDecl' = NoDecl
    /\ UNCHANGED <<status, nodesLeft, funcDeclStack, selfParamStack,
                   globalReservedDecls, obfuscationCounter, anonymCounter>>
    /\ Fixed

\* the parameters of a function: of the entry point, the variables of its
\* semantics; of another function, none or one
Parameters(ast) ==
    IF "isEntryPoint" \in ast.flags
    THEN {[i \in DOMAIN globalReservedDecls |->
            [Node("VarDeclStmnt", globalReservedDecls[i].ident,
                  globalReservedDecls[i].flags) EXCEPT !.ref = i]]}
    ELSE {<<>>, <<Node("VarDeclStmnt", <<"x">>, {})>>}

\* IMPLEMENT_VISIT_PROC(FunctionDecl) and ConvertFunctionDecl, up to the
\* default visitor
ConvertFunctionDecl ==
    /\ Visiting("FunctionDecl")
    /\ \E parameters \in Parameters(Child) :
         LET r == RenameReservedKeyword(Child.ident, obfuscationCounter)
             ast == [Child EXCEPT !.ident = r.ident]
             self == IF HasSelfParam(Child) THEN <<SelfParam>> ELSE <<>>
         IN  /\ funcDeclStack' = Append(funcDeclStack, ast)
             /\ symTable' = OpenScope(symTable)
             /\ scopeDecls' = Append(scopeDecls, <<>>)
             /\ selfParamStack' = selfParamStack \o self
             /\ obfuscationCounter' = r.counter
             /\ frames' = <<Frame(ast, self \o parameters
                                       \o <<Node("CodeBlock", <<>>, {})>>)>>
                          \o Rest
             /\ lastDecl' = [visited |-> TRUE, kind |-> "FunctionDecl",
                             original |-> Child.ident, ident |-> r.ident]
    /\ lastBlock' = NoBlock
    /\ lastStruct' = NoStruct
    /\ UNCHANGED <<status, nodesLeft, structDeclStack, globalReservedDecls,
                   anonymCounter>>
    /\ Fixed

\* ConvertFunctionDecl and IMPLEMENT_VISIT_PROC(FunctionDecl), after the
\* default visitor; no parameter here is a sampler state, so
\* RemoveSamplerStateVarDeclStmnts(ast->parameters) removes none
ConvertFunctionDeclEnd ==
    /\ Leaving({"FunctionDecl"})
    /\ selfParamStack' = IF HasSelfParam(Head(frames).node)
                         THEN Pop(selfParamStack) ELSE selfParamStack
    /\ symTable' = CloseScope(symTable)
    /\ scopeDecls' = Pop(scopeDecls)
    /\ funcDeclStack' = Pop(funcDeclStack)
    /\ frames' = Tail(frames)
    /\ NoLogs
    /\ UNCHANGED <<status, nodesLeft, structDeclStack, globalReservedDecls,
                   obfuscationCounter, anonymCounter>>
    /\ Fixed

\* IMPLEMENT_VISIT_PROC(CodeBlock), up to VISIT_DEFAULT(CodeBlock); the
\* block made around an entry-point return holds that return only
VisitCodeBlock ==
    /\ Visiting("CodeBlock")
    /\ \E stmnts \in (IF "wrapsReturn" \in Child.flags
                      THEN {Tag(<<ReturnStmnt>>)}
                      ELSE StmntLists(nodesLeft)) :
         LET after == UnrollStmnts(RemoveDeadCode(stmnts))
         IN  /\ frames' = <<[Frame(Child, after) EXCEPT !.stmnts = after]>>
                          \o Rest
             /\ nodesLeft' = nodesLeft - Cost(stmnts)
             /\ lastBlock' = [visited |-> TRUE, before |-> stmnts,
                              after |-> after]
    /\ lastStruct' = NoStruct
    /\ lastDecl' = NoDecl
    /\ UNCHANGED <<status, symTable, scopeDecls, funcDeclStack,
                   structDeclStack, selfParamStack, globalReservedDecls,
                   obfuscationCounter, anonymCounter>>
    /\ Fixed

\* IMPLEMENT_VISIT_PROC(SwitchCase), up to VISIT_DEFAULT(SwitchCase)
VisitSwitchCase ==
    /\ Visiting("SwitchCase")
    /\ \E stmnts \in StmntLists(nodesLeft) :
         LET after == RemoveDeadCode(stmnts)
         IN  /\ frames' = <<[Frame(Child, after) EXCEPT !.stmnts = after]>>
                          \o Rest
             /\ nodesLeft' = nodesLeft - Cost(stmnts)
             /\ lastBlock' = [visited |-> TRUE, before |-> stmnts,
                              after |-> after]
    /\ lastStruct' = NoStruct
    /\ lastDecl' = NoDecl
    /\ UNCHANGED <<status, symTable, scopeDecls, funcDeclStack,
                   structDeclStack, selfParamStack, globalReservedDecls,
                   obfuscationCounter, anonymCounter>>
    /\ Fixed

\* the return of VisitCodeBlock and of VisitSwitchCase from their descent
VisitBlockEnd ==
    /\ Leaving({"CodeBlock", "SwitchCase"})
    /\ frames' = Tail(frames)
    /\ NoLogs
    /\ UNCHANGED <<status, nodesLeft, symTable, scopeDecls, funcDeclStack,
                   structDeclStack, selfParamStack, globalReservedDecls,
                   obfuscationCounter, anonymCounter>>
    /\ Fixed

\* the descent into a statement that opens a scope of its own
EnterScope(ast, todo, cost) ==
    /\ symTable' = OpenScope(symTable)
    /\ scopeDecls' = Append(scopeDecls, <<>>)
    /\ frames' = <<Frame(ast, todo)>> \o Rest
    /\ nodesLeft' = nodesLeft - cost
    /\ NoLogs
    /\ UNCHANGED <<status, funcDeclStack, structDeclStack, selfParamStack,
                   globalReservedDecls, obfuscationCounter, anonymCounter>>
    /\ Fixed

\* IMPLEMENT_VISIT_PROC(CodeBlockStmnt), up to VISIT_DEFAULT(CodeBlockStmnt)
VisitCodeBlockStmnt ==
    /\ Visiting("CodeBlockStmnt")
    /\ LET codeBlock == Node("CodeBlock", <<>>,
                             Child.flags \cap {"wrapsReturn"})
       IN  IF OpensScope(Child)
           THEN EnterScope(Child, <<codeBlock>>, 0)
           ELSE /\ frames' = <<Frame(Child, <<codeBlock>>)>> \o Rest
                /\ NoLogs
                /\ UNCHANGED <<status, nodesLeft, symTable, scopeDecls,
                               funcDeclStack, structDeclStack, selfParamStack,
                               globalReservedDecls, obfuscationCounter,
                               anonymCounter>>
                /\ Fixed

\* CloseScope() at the end of a visit that opened a scope
LeaveScope ==
    /\ symTable' = CloseScope(symTable)
    /\ scopeDecls' = Pop(scopeDecls)
    /\ frames' = Tail(frames)
    /\ NoLogs
    /\ UNCHANGED <<status, nodesLeft, funcDeclStack, structDeclStack,
                   selfParamStack, globalReservedDecls, obfuscationCounter,
                   anonymCounter>>
    /\ Fixed

\* IMPLEMENT_VISIT_PROC(CodeBlockStmnt), after VISIT_DEFAULT(CodeBlockStmnt)
VisitCodeBlockStmntEnd ==
    /\ Leaving({"CodeBlockStmnt"})
    /\ IF OpensScope(Head(frames).node)
       THEN LeaveScope
       ELSE /\ frames' = Tail(frames)
            /\ NoLogs
            /\ UNCHANGED <<status, nodesLeft, symTable, scopeDecls,
                           funcDeclStack, structDeclStack, selfParamStack,
                           globalReservedDecls, obfuscationCounter,
                           anonymCounter>>
            /\ Fixed

\* IMPLEMENT_VISIT_PROC(ForLoopStmnt), up to the visit of the init statement
VisitForLoopStmnt ==
    /\ Visiting("ForLoopStmnt")
    /\ \E initStmnt \in {<<>>, <<Node("VarDeclStmnt", <<"x">>, {})>>},
          bodyStmnt \in Bodies(nodesLeft) :
         LET body == MakeCodeBlockInEntryPointReturnStmnt(bodyStmnt)
         IN  /\ EnterScope(Child,
                    initStmnt \o
                    <<IF body.kind = "CodeBlockStmnt"
                      THEN [body EXCEPT !.flags = @ \cup {"disableNewScope"}]
                      ELSE body>>,
                    Cost(<<bodyStmnt>>))

\* IMPLEMENT_VISIT_PROC(WhileLoopStmnt), up to VISIT_DEFAULT
VisitWhileLoopStmnt ==
    /\ Visiting("WhileLoopStmnt")
    /\ \E bodyStmnt \in Bodies(nodesLeft) :
         EnterScope(Child, <<MakeCodeBlockInEntryPointReturnStmnt(bodyStmnt)>>,
                    Cost(<<bodyStmnt>>))

\* IMPLEMENT_VISIT_PROC(DoWhileLoopStmnt), up to VISIT_DEFAULT
VisitDoWhileLoopStmnt ==
    /\ Visiting("DoWhileLoopStmnt")
    /\ \E bodyStmnt \in Bodies(nodesLeft) :
         EnterScope(Child, <<MakeCodeBlockInEntryPointReturnStmnt(bodyStmnt)>>,
                    Cost(<<bodyStmnt>>))

\* IMPLEMENT_VISIT_PROC(IfStmnt), up to VISIT_DEFAULT: the body, then the
\* else branch if there is one
VisitIfStmnt ==
    /\ Visiting("IfStmnt")
    /\ \E bodyStmnt \in Bodies(nodesLeft),
          elseStmnt \in {<<>>, <<Node("ElseStmnt", <<>>, {})>>} :
         /\ Cost(<<bodyStmnt>> \o elseStmnt) <= nodesLeft
         /\ EnterScope(Child,
                <<MakeCodeBlockInEntryPointReturnStmnt(bodyStmnt)>> \o elseStmnt,
                Cost(<<bodyStmnt>> \o elseStmnt))

\* IMPLEMENT_VISIT_PROC(ElseStmnt), up to VISIT_DEFAULT
VisitElseStmnt ==
    /\ Visiting("ElseStmnt")
    /\ \E bodyStmnt \in Bodies(nodesLeft) :
         EnterScope(Child, <<MakeCodeBlockInEntryPointReturnStmnt(bodyStmnt)>>,
                    Cost(<<bodyStmnt>>))

\* IMPLEMENT_VISIT_PROC(SwitchStmnt), up to VISIT_DEFAULT, with its cases
VisitSwitchStmnt ==
    /\ Visiting("SwitchStmnt")
    /\ \E cases \in {[i \in 1..k |-> Node("SwitchCase", <<>>, {})] :
                        k \in 0..nodesLeft} :
         EnterScope(Child, cases, Cost(cases))

\* CloseScope() after VISIT_DEFAULT in the loop, if, else and switch visits
VisitScopedStmntEnd ==
    /\ Leaving(ScopedStmntKinds)
    /\ LeaveScope

\* IMPLEMENT_VISIT_PROC(VarDeclStmnt) and, for its declarator,
\* IMPLEMENT_VISIT_PROC(VarDecl): RegisterDeclIdent(ast); the storage
\* classes of the statement are not part of a node here
VisitVarDeclStmnt ==
    /\ Visiting("VarDeclStmnt")
    /\ LET obj == [Child EXCEPT !.kind = "VarDecl"]
           r == DeclIdent(obj, globalReservedDecls, symTable,
                          obfuscationCounter)
       IN  /\ symTable' = Register(symTable, r.ident)
           /\ scopeDecls' = RecordDecl(scopeDecls, r.ident)
           /\ obfuscationCounter' = r.counter
           /\ globalReservedDecls' =
                  IF obj.ref # 0
                  THEN [globalReservedDecls EXCEPT ![obj.ref].ident = r.ident]
                  ELSE globalReservedDecls
           /\ lastDecl' = [visited |-> TRUE, kind |-> "VarDecl",
                           original |-> obj.ident, ident |-> r.ident]
    /\ frames' = Rest
    /\ lastBlock' = NoBlock
    /\ lastStruct' = NoStruct
    /\ UNCHANGED <<status, nodesLeft, funcDeclStack, structDeclStack,
                   selfParamStack, anonymCounter>>
    /\ Fixed

\* IMPLEMENT_VISIT_PROC(CallExpr): a RuntimeErr leaves the walk at once,
\* through every visit in progress
VisitCallExpr ==
    /\ Visiting("CallExpr")
    /\ IF RaisesRuntimeErr(Child)
       THEN status' = "error" /\ frames' = <<>>
       ELSE status' = status /\ frames' = Rest
    /\ NoLogs
    /\ UNCHANGED <<nodesLeft, symTable, scopeDecls, funcDeclStack,
                   structDeclStack, selfParamStack, globalReservedDecls,
                   obfuscationCounter, anonymCounter>>
    /\ Fixed

\* the visitor's default visit of a statement the converter does not
\* override: a return, an unrolled array assignment
VisitStmntDefault ==
    /\ status = "running"
    /\ frames # <<>>
    /\ Head(frames).todo # <<>>
    /\ Child.kind \in {"ReturnStmnt", "ArrayAssignStmnt"}
    /\ frames' = Rest
    /\ NoLogs
    /\ UNCHANGED <<status, nodesLeft, symTable, scopeDecls, funcDeclStack,
                   structDeclStack, selfParamStack, globalReservedDecls,
                   obfuscationCounter, anonymCounter>>
    /\ Fixed

\* Convert is called on a constructed converter with any target version,
\* options and shader target
InitConvert ==
    /\ shaderTarget \in ShaderTargets
    /\ InitUniformsIdle /\ InitStatesIdle /\ InitFunctionsIdle
    /\ InitExtraIdle
    /\ isVKSL \in BOOLEAN
    /\ options \in [obfuscate : BOOLEAN, unrollArrayInitializers : BOOLEAN,
                    useAlwaysSemantics : BOOLEAN]
    /\ status = "idle"
    /\ frames = <<>>
    /\ nodesLeft = 0
    /\ symTable = GlobalScopes
    /\ scopeDecls = <<<<>>>>
    /\ funcDeclStack = <<>>
    /\ structDeclStack = <<>>
    /\ selfParamStack = <<>>
    /\ globalReservedDecls = <<>>
    /\ obfuscationCounter = 0
    /\ anonymCounter = 0
    /\ lastBlock = NoBlock
    /\ lastStruct = NoStruct
    /\ lastDecl = NoDecl

NextConvert ==
    \/ VisitProgram
    \/ VisitProgramEnd
    \/ VisitStructDecl
    \/ VisitStructDeclEnd
    \/ ConvertFunctionDecl
    \/ ConvertFunctionDeclEnd
    \/ VisitCodeBlock
    \/ VisitSwitchCase
    \/ VisitBlockEnd
    \/ VisitCodeBlockStmnt
    \/ VisitCodeBlockStmntEnd
    \/ VisitForLoopStmnt
    \/ VisitWhileLoopStmnt
    \/ VisitDoWhileLoopStmnt
    \/ VisitIfStmnt
    \/ VisitElseStmnt
    \/ VisitSwitchStmnt
    \/ VisitScopedStmntEnd
    \/ VisitVarDeclStmnt
    \/ VisitCallExpr
    \/ VisitStmntDefault

SpecConvert == InitConvert /\ [][NextConvert]_vars

(***************************************************************************)
(* Claims about the converter's walk.                                      *)
(***************************************************************************)
\* the visits in progress that have opened a scope and not yet closed it
ScopeFrames ==
    {i \in DOMAIN frames :
        \/ frames[i].kind \in ScopedStmntKinds \cup {"StructDecl", "FunctionDecl"}
        \/ frames[i].kind = "CodeBlockStmnt" /\ OpensScope(frames[i].node)}

FramesOfKind(kind) == {i \in DOMAIN frames : frames[i].kind = kind}

\* no scope is left open and the three stacks are empty
Balanced ==
    /\ Len(symTable) = Len(GlobalScopes)
    /\ funcDeclStack = <<>>
    /\ structDeclStack = <<>>
    /\ selfParamStack = <<>>

\* C4: while the walk runs, the scopes open above the global one and the
\* entries of the function, structure and self-parameter stacks are exactly
\* those of the visits in progress; so when Convert has finished a program
\* without an error, whatever the nesting of its structures, functions,
\* blocks, loops, ifs, elses and switches, the scope stack is back at its
\* depth from before the program visit and the three stacks are empty.
C4_StacksBalanced ==
    /\ status \in {"running", "done"} =>
          /\ Len(symTable) = Len(GlobalScopes) + Cardinality(ScopeFrames)
          /\ Len(funcDeclStack) = Cardinality(FramesOfKind("FunctionDecl"))
          /\ Len(structDeclStack) = Cardinality(FramesOfKind("StructDecl"))
          /\ Len(selfParamStack) =
                 Cardinality({i \in FramesOfKind("FunctionDecl") :
                                 HasSelfParam(frames[i].node)})
    /\ status = "done" => Balanced

\* a program that used every compound node of the budget has been finished
C4_Witness == status = "done" /\ nodesLeft = 0 /\ anonymCounter > 0

\* C5: every scope opened and every function declaration, structure
\* declaration and self parameter pushed is closed or popped on every exit
\* from the visit that opened it, also when the exit is a runtime error
\* raised inside it: after a walk that ended in an error nothing is left
\* open or pushed.
C5_BalancedOnError == status = "error" => Balanced

\* the final identifiers of the declarations registered in one scope are
\* pairwise different
NoCollision(decls) ==
    \A i, j \in DOMAIN decls : i # j => decls[i] # decls[j]

\* C6: no declaration identifier the converter leaves behind equals a
\* reserved keyword of the target, none begins with "gl_", and no two
\* declarations registered in the same scope have the same final identifier.
C6_NoReservedCollisions ==
    /\ lastDecl.visited =>
          /\ ~IsReservedKeyword(lastDecl.ident)
          /\ ~BeginsWithGl(lastDecl.ident)
    /\ \A k \in DOMAIN scopeDecls : NoCollision(scopeDecls[k])

\* C7: after its visit a structure has at least one member variable: if no
\* member variable is left once the sampler-state members were stripped
\* (which happens for GLSL only, not for VKSL), the members are exactly one
\* synthesized int member named temporaryPrefix + "dummy"; otherwise they
\* are the members left, with nothing added.
C7_StructHasMember ==
    lastStruct.visited =>
        LET left == IF isVKSL THEN lastStruct.before
                    ELSE SelectSeq(lastStruct.before,
                                   LAMBDA st : "samplerState" \notin st.flags)
        IN  /\ Len(lastStruct.after) >= 1
            /\ left = <<>> =>
                   lastStruct.after =
                       <<Node("VarDeclStmnt", <<"xst_", "dummy">>, {"int"})>>
            /\ left # <<>> => lastStruct.after = left

\* a GLSL structure whose members were all sampler states got the dummy
C7_Witness ==
    /\ lastStruct.visited
    /\ Len(lastStruct.before) = 2
    /\ Len(lastStruct.after) = 1
    /\ lastStruct.after[1].ident = <<"xst_", "dummy">>

\* what identifies a statement of a list: its place in the list as it was
\* handed over, its kind and its identifier
Identity(stmnts) ==
    [i \in DOMAIN stmnts |->
        <<stmnts[i].pos, stmnts[i].kind, stmnts[i].ident>>]

\* C8: after the visit of a code block or of a switch case, no statement of
\* its list carries the dead-code flag, and the statements of the list that
\* the converter did not make itself are the statements that were in the
\* list before without that flag, in the same order.
C8_DeadCodePurged ==
    lastBlock.visited =>
        /\ \A i \in DOMAIN lastBlock.after :
               "isDeadCode" \notin lastBlock.after[i].flags
        /\ Identity(SelectSeq(lastBlock.after, LAMBDA st : st.pos # 0))
           = Identity(SelectSeq(lastBlock.before,
                                LAMBDA st : "isDeadCode" \notin st.flags))

\* a list with dead statements next to each other, at the front and in the
\* middle, was purged and its array initializer unrolled
C8_Witness ==
    /\ lastBlock.visited
    /\ Len(lastBlock.before) = 5
    /\ Len(lastBlock.after) = 4

(***************************************************************************)
(* ASTEnums: the helpers every enum <-> string conversion goes through.    *)
(* A std::map is the sequence of its entries <<enumerator, string>> in     *)
(* key order; a conversion yields a value or the std::invalid_argument of  *)
(* MapFailed.                                                              *)
(***************************************************************************)
MapFailed(from, to) == [failed |-> TRUE, from |-> from, to |-> to]

Mapped(v) == [failed |-> FALSE, value |-> v]

\* typeMap.find(type)
TypeToString(typeMap, type, typeName) ==
    LET hits == {i \in 1..Len(typeMap) : typeMap[i][1] = type}
    IN  IF hits # {}
        THEN Mapped(typeMap[CHOOSE i \in hits : TRUE][2])
        ELSE MapFailed(typeName, "string")

\* the first entry, in key order, whose string is str
StringToType(typeMap, str, typeName) ==
    LET hits == {i \in 1..Len(typeMap) : typeMap[i][2] = str}
    IN  IF hits # {}
        THEN Mapped(typeMap[CHOOSE i \in hits : \A j \in hits : i <= j][1])
        ELSE MapFailed("string", typeName)

(***************************************************************************)
(* ReflectionAnalyzer::VisitStateDecl, cases Rasterizer, Depth, Stencil    *)
(* and Options, with the decoders of their state values.                   *)
(***************************************************************************)
\* the enumerators of Reflection.h under their own names
g_mapFillMode == <<<<"Wire", "Wire">>, <<"Solid", "Solid">>>>
g_mapCullMode == <<<<"Clockwise", "Clockwise">>,
                   <<"CounterClockwise", "CounterClockwise">>,
                   <<"None", "None">>>>
g_mapCompareFunc == <<<<"Never", "Never">>, <<"Less", "Less">>,
                      <<"Always", "Always">>>>
g_mapStencilOpType == <<<<"Keep", "Keep">>, <<"Zero", "Zero">>,
                        <<"Replace", "Replace">>>>
g_mapSortMode == <<<<"None", "None">>, <<"BackToFront", "BackToFront">>,
                   <<"FrontToBack", "FrontToBack">>>>

StringToFillMode(s) == StringToType(g_mapFillMode, s, "FillMode")
StringToCullMode(s) == StringToType(g_mapCullMode, s, "CullMode")
StringToCompareFunc(s) == StringToType(g_mapCompareFunc, s, "ComparisonFunc")
StringToStencilOpType(s) == StringToType(g_mapStencilOpType, s, "StencilOpType")
StringToSortMode(s) == StringToType(g_mapSortMode, s, "SortMode")

\* an ObjectExpr with its identifier
KeywordExpr(ident) == [kind |-> "ObjectExpr", ident |-> ident]

StateValue(name, value) == [name |-> name, value |-> value]

\* the argument breakWithException of the SubmitReport call in Error
BreakWithExceptionAlways == TRUE
BreakWithException == FALSE

\* ReflectionAnalyzer::Error on acc = [state, reports, aborted]
Error(acc) == [acc EXCEPT !.reports = @ + 1, !.aborted = BreakWithException]

\* try { field = StringToX(value); } catch (std::invalid_argument) { Error }
ReflectEnum(parsed, acc, field) ==
    IF parsed.failed THEN Error(acc)
    ELSE [acc EXCEPT !.state[field] = parsed.value]

ReflectFillMode(value, acc, field) == ReflectEnum(StringToFillMode(value), acc, field)
ReflectCullMode(value, acc, field) == ReflectEnum(StringToCullMode(value), acc, field)
ReflectComparisonFunc(value, acc, field) ==
    ReflectEnum(StringToCompareFunc(value), acc, field)
ReflectStencilOpType(value, acc, field) ==
    ReflectEnum(StringToStencilOpType(value), acc, field)
ReflectSortMode(value, acc, field) == ReflectEnum(StringToSortMode(value), acc, field)

\* (uint8_t)(int8_t)variant.Int()
UInt8OfInt8(v) == (Int8(v) + 256) % 256

\* a literal value decoded into a field, R_ExpectedLiteralExpr otherwise
ReflectLiteral(ast, acc, field, value) ==
    IF ast.value.kind = "LiteralExpr"
    THEN [acc EXCEPT !.state[field] = value]
    ELSE Error(acc)

ReflectRasterizerStateValue(ast, acc) ==
    LET name == ast.name
        isObject == ast.value.kind = "ObjectExpr"
    IN  CASE name = "scissor" ->
                ReflectLiteral(ast, acc, "scissorEnable", VariantBool(ast.value))
          [] name = "multisample" ->
                ReflectLiteral(ast, acc, "multisampleEnable", VariantBool(ast.value))
          [] name = "lineaa" ->
                ReflectLiteral(ast, acc, "antialisedLineEnable", VariantBool(ast.value))
          [] name = "fill" ->
                IF isObject THEN ReflectFillMode(ast.value.ident, acc, "fillMode")
                ELSE Error(acc)
          [] name = "cull" ->
                IF isObject THEN ReflectCullMode(ast.value.ident, acc, "cullMode")
                ELSE Error(acc)
          [] OTHER -> Error(acc)

ReflectDepthStateValue(ast, acc) ==
    LET name == ast.name
    IN  CASE name = "read" ->
                ReflectLiteral(ast, acc, "readEnable", VariantBool(ast.value))
          [] name = "write" ->
                ReflectLiteral(ast, acc, "writeEnable", VariantBool(ast.value))
          [] name = "compare" ->
                IF ast.value.kind = "ObjectExpr"
                THEN ReflectComparisonFunc(ast.value.ident, acc, "compareFunc")
                ELSE Error(acc)
          [] name = "bias" ->
                ReflectLiteral(ast, acc, "depthBias", VariantInt(ast.value))
          [] name = "scaledBias" ->
                ReflectLiteral(ast, acc, "scaledDepthBias", VariantInt(ast.value))
          [] name = "clip" ->
                ReflectLiteral(ast, acc, "depthClip", VariantBool(ast.value))
          [] OTHER -> Error(acc)

\* acc.state is the StencilOperation of one face
ReflectStencilOperationValue(ast, acc) ==
    LET name == ast.name
    IN  IF ast.value.kind = "ObjectExpr"
        THEN CASE name = "fail" -> ReflectStencilOpType(ast.value.ident, acc, "fail")
               [] name = "zfail" -> ReflectStencilOpType(ast.value.ident, acc, "zfail")
               [] name = "pass" -> ReflectStencilOpType(ast.value.ident, acc, "pass")
               [] name = "compare" ->
                     ReflectComparisonFunc(ast.value.ident, acc, "compareFunc")
               [] OTHER -> Error(acc)
        ELSE Error(acc)

\* for (auto& expr : stateInitializerExpr->exprs) on one face; an exception
\* leaves the loop
RECURSIVE ReflectStencilOperationValues(_, _)
ReflectStencilOperationValues(exprs, acc) ==
    IF exprs = <<>> \/ acc.aborted THEN acc
    ELSE ReflectStencilOperationValues(Tail(exprs),
                                       ReflectStencilOperationValue(Head(exprs), acc))

ReflectStencilFace(ast, acc, face) ==
    IF ast.value.kind = "StateInitializerExpr"
    THEN LET r == ReflectStencilOperationValues(
                      ast.value.exprs,
                      [state |-> acc.state[face], reports |-> acc.reports,
                       aborted |-> acc.aborted])
         IN  [state |-> [acc.state EXCEPT ![face] = r.state],
              reports |-> r.reports, aborted |-> r.aborted]
    ELSE Error(acc)

ReflectStencilStateValue(ast, acc) ==
    LET name == ast.name
    IN  CASE name = "enabled" ->
                ReflectLiteral(ast, acc, "enabled", VariantBool(ast.value))
          [] name = "reference" ->
                ReflectLiteral(ast, acc, "reference", Int32(VariantInt(ast.value)))
          [] name = "readmask" ->
                ReflectLiteral(ast, acc, "readMask", UInt8OfInt8(VariantInt(ast.value)))
          [] name = "writemask" ->
                ReflectLiteral(ast, acc, "writeMask", UInt8OfInt8(VariantInt(ast.value)))
          [] name = "back" -> ReflectStencilFace(ast, acc, "back")
          [] name = "front" -> ReflectStencilFace(ast, acc, "front")
          [] OTHER -> Error(acc)

\* a decoder that stores the key "forward" in options.forward
ReflectOptionsStateValueForward(ast, acc) ==
    LET name == ast.name
    IN  CASE name = "separable" ->
                ReflectLiteral(ast, acc, "separable", VariantBool(ast.value))
          [] name = "priority" ->
                ReflectLiteral(ast, acc, "priority", Int32(VariantInt(ast.value)))
          [] name = "transparent" ->
                ReflectLiteral(ast, acc, "transparent", VariantBool(ast.value))
          [] name = "forward" ->
                ReflectLiteral(ast, acc, "forward", VariantBool(ast.value))
          [] name = "sort" ->
                IF ast.value.kind = "ObjectExpr"
                THEN ReflectSortMode(ast.value.ident, acc, "sortMode")
                ELSE Error(acc)
          [] OTHER -> Error(acc)

\* the key "forward" is decoded into options.transparent
ReflectOptionsStateValue(ast, acc) ==
    LET name == ast.name
    IN  CASE name = "separable" ->
                ReflectLiteral(ast, acc, "separable", VariantBool(ast.value))
          [] name = "priority" ->
                ReflectLiteral(ast, acc, "priority", Int32(VariantInt(ast.value)))
          [] name = "transparent" ->
                ReflectLiteral(ast, acc, "transparent", VariantBool(ast.value))
          [] name = "forward" ->
                ReflectLiteral(ast, acc, "transparent", VariantBool(ast.value))
          [] name = "sort" ->
                IF ast.value.kind = "ObjectExpr"
                THEN ReflectSortMode(ast.value.ident, acc, "sortMode")
                ELSE Error(acc)
          [] OTHER -> Error(acc)

\* the state initializers the analyzer is run on, per state type: well-formed
\* values, unknown keys, values of the wrong expression kind and unknown
\* enumerator strings, in any position
On == LiteralExpr(IntLiteral(1))
Off == LiteralExpr(IntLiteral(0))

RasterizerInitializers ==
    {<<>>,
     <<StateValue("scissor", On), StateValue("fill", KeywordExpr("Wire"))>>,
     <<StateValue("fill", KeywordExpr("Bogus")), StateValue("multisample", Off)>>,
     <<StateValue("cull", On), StateValue("cull", KeywordExpr("None"))>>,
     <<StateValue("lineaa", KeywordExpr("Solid")), StateValue("lineaa", On)>>,
     <<StateValue("bogus", On), StateValue("cull", KeywordExpr("Bogus")),
       StateValue("fill", KeywordExpr("Wire"))>>}

DepthInitializers ==
    {<<StateValue("read", Off), StateValue("compare", KeywordExpr("Never"))>>,
     <<StateValue("compare", KeywordExpr("Bogus")), StateValue("write", Off)>>,
     <<StateValue("compare", On), StateValue("bias", LiteralExpr(IntLiteral(3)))>>,
     <<StateValue("clip", KeywordExpr("Less")),
       StateValue("scaledBias", LiteralExpr(IntLiteral(2))),
       StateValue("clip", Off)>>,
     <<StateValue("depth", On), StateValue("bias", StateInitializerExpr(<<>>))>>}

StencilOperationInitializers ==
    {<<StateValue("fail", KeywordExpr("Zero")), StateValue("compare", KeywordExpr("Never"))>>,
     <<StateValue("pass", KeywordExpr("Bogus")), StateValue("zfail", KeywordExpr("Replace"))>>,
     <<StateValue("fail", On), StateValue("pass", KeywordExpr("Zero"))>>,
     <<StateValue("bogus", KeywordExpr("Zero")), StateValue("compare", KeywordExpr("Less"))>>}

StencilInitializers ==
    {<<StateValue("enabled", On),
       StateValue("reference", LiteralExpr(IntLiteral(-1)))>>,
     <<StateValue("readmask", LiteralExpr(IntLiteral(133))),
       StateValue("writemask", KeywordExpr("Keep"))>>,
     <<StateValue("back", On), StateValue("front", KeywordExpr("Keep")),
       StateValue("enabled", On)>>,
     <<StateValue("stencil", On), StateValue("writemask", LiteralExpr(IntLiteral(7)))>>}
    \cup {<<StateValue("back", StateInitializerExpr(exprs)),
            StateValue("front", StateInitializerExpr(exprs))>> :
            exprs \in StencilOperationInitializers}

OptionsInitializers ==
    {<<StateValue("separable", On), StateValue("sort", KeywordExpr("BackToFront"))>>,
     <<StateValue("sort", KeywordExpr("Bogus")),
       StateValue("priority", LiteralExpr([hi |-> TwoTo16, lo |-> 1]))>>,
     <<StateValue("sort", On), StateValue("forward", On)>>,
     <<StateValue("forward", On), StateValue("forward", Off)>>,
     <<StateValue("transparent", KeywordExpr("None")),
       StateValue("transparent", On)>>,
     <<StateValue("options", On), StateValue("priority", KeywordExpr("None")),
       StateValue("sort", KeywordExpr("None"))>>}

StateInitializers(type) ==
    CASE type = "Rasterizer" -> RasterizerInitializers
      [] type = "Depth" -> DepthInitializers
      [] type = "Stencil" -> StencilInitializers
      [] type = "Options" -> OptionsInitializers

StateTypes == {"Rasterizer", "Depth", "Stencil", "Options"}

StateRecords == <<rasterizerState, depthState, stencilState, globalOptions>>

\* IMPLEMENT_VISIT_PROC(StateDecl) up to the loop over initializer->exprs;
\* a declaration without initializer returns at once
VisitStateDeclInitializer ==
    /\ reflectStatus = "running"
    /\ stateExprs = <<>>
    /\ stateDeclsLeft > 0
    /\ stateDeclsLeft' = stateDeclsLeft - 1
    /\ \E type \in StateTypes :
        /\ stateType' = type
        /\ stateExprs' \in StateInitializers(type)
    /\ lastStateValue' = NoStateValue
    /\ UNCHANGED <<rasterizerState, depthState, stencilState, globalOptions,
                   reflectStatus>>
    /\ UNCHANGED othersOfStateValues

\* one iteration of the loop over initializer->exprs: the decoder's result r
\* is stored; an exception leaving the decoder leaves Reflect
DecodeStateValue(type, r) ==
    /\ reflectStatus = "running"
    /\ stateExprs # <<>>
    /\ stateType = type
    /\ lastStateValue' = [decoded |-> TRUE, stateType |-> type,
                          ast |-> Head(stateExprs), reports |-> r.reports,
                          before |-> StateRecords, exprsBefore |-> stateExprs]
    /\ IF r.aborted
       THEN /\ reflectStatus' = "aborted"
            /\ stateExprs' = <<>>
            /\ stateDeclsLeft' = 0
       ELSE /\ stateExprs' = Tail(stateExprs)
            /\ UNCHANGED <<reflectStatus, stateDeclsLeft>>
    /\ UNCHANGED stateType
    /\ UNCHANGED othersOfStateValues

Decoding(state) == [state |-> state, reports |-> 0, aborted |-> FALSE]

VisitRasterizerStateValue ==
    /\ stateExprs # <<>>
    /\ LET r == ReflectRasterizerStateValue(Head(stateExprs), Decoding(rasterizerState))
       IN  /\ DecodeStateValue("Rasterizer", r)
           /\ rasterizerState' = r.state
    /\ UNCHANGED <<depthState, stencilState, globalOptions>>

VisitDepthStateValue ==
    /\ stateExprs # <<>>
    /\ LET r == ReflectDepthStateValue(Head(stateExprs), Decoding(depthState))
       IN  /\ DecodeStateValue("Depth", r)
           /\ depthState' = r.state
    /\ UNCHANGED <<rasterizerState, stencilState, globalOptions>>

VisitStencilStateValue ==
    /\ stateExprs # <<>>
    /\ LET r == ReflectStencilStateValue(Head(stateExprs), Decoding(stencilState))
       IN  /\ DecodeStateValue("Stencil", r)
           /\ stencilState' = r.state
    /\ UNCHANGED <<rasterizerState, depthState, globalOptions>>

VisitOptionsStateValue ==
    /\ stateExprs # <<>>
    /\ LET r == ReflectOptionsStateValue(Head(stateExprs), Decoding(globalOptions))
       IN  /\ DecodeStateValue("Options", r)
           /\ globalOptions' = r.state
    /\ UNCHANGED <<rasterizerState, depthState, stencilState>>

\* Reflect returns once the program is walked
ReflectReturn ==
    /\ reflectStatus = "running"
    /\ stateExprs = <<>>
    /\ stateDeclsLeft = 0
    /\ reflectStatus' = "returned"
    /\ lastStateValue' = NoStateValue
    /\ UNCHANGED <<rasterizerState, depthState, stencilState, globalOptions,
                   stateExprs, stateType, stateDeclsLeft>>
    /\ UNCHANGED othersOfStateValues

\* Reflect on a fresh record and a program of up to MaxStateDecls state
\* declarations
InitStateValues ==
    /\ shaderTarget = "VertexShader"
    /\ InitUniformsIdle /\ InitStatesIdle /\ InitFunctionsIdle
    /\ InitConvertIdle
    /\ InitProgramIdle /\ InitAttributesIdle /\ InitEnumsIdle /\ InitCallsIdle
    /\ InitFurtherIdle
    /\ rasterizerState = RasterizerState
    /\ depthState = DepthState
    /\ stencilState = StencilState
    /\ globalOptions = GlobalOptions
    /\ stateExprs = <<>>
    /\ stateType = "Undefined"
    /\ stateDeclsLeft \in 0..MaxStateDecls
    /\ lastStateValue = NoStateValue
    /\ reflectStatus = "running"

NextStateValues ==
    \/ VisitStateDeclInitializer
    \/ VisitRasterizerStateValue
    \/ VisitDepthStateValue
    \/ VisitStencilStateValue
    \/ VisitOptionsStateValue
    \/ ReflectReturn

SpecStateValues == InitStateValues /\ [][NextStateValues]_vars

(***************************************************************************)
(* C11                                                                     *)
(***************************************************************************)
Enumerators(typeMap) == {typeMap[i][2] : i \in 1..Len(typeMap)}

\* per state type: the keys taking a literal, and the keys taking an
\* enumerator with the strings of that enumeration
LiteralKeys(type) ==
    CASE type = "Rasterizer" -> {"scissor", "multisample", "lineaa"}
      [] type = "Depth" -> {"read", "write", "bias", "scaledBias", "clip"}
      [] type = "Stencil" -> {"enabled", "reference", "readmask", "writemask"}
      [] type = "Options" -> {"separable", "priority", "transparent", "forward"}
      [] OTHER -> {}

EnumKeys(type) ==
    CASE type = "Rasterizer" -> {<<"fill", Enumerators(g_mapFillMode)>>,
                                 <<"cull", Enumerators(g_mapCullMode)>>}
      [] type = "Depth" -> {<<"compare", Enumerators(g_mapCompareFunc)>>}
      [] type = "StencilOperation" ->
            {<<"fail", Enumerators(g_mapStencilOpType)>>,
             <<"zfail", Enumerators(g_mapStencilOpType)>>,
             <<"pass", Enumerators(g_mapStencilOpType)>>,
             <<"compare", Enumerators(g_mapCompareFunc)>>}
      [] type = "Options" -> {<<"sort", Enumerators(g_mapSortMode)>>}
      [] OTHER -> {}

InitializerKeys(type) == IF type = "Stencil" THEN {"back", "front"} ELSE {}

\* an unknown key, a value of the wrong expression kind, or an unknown
\* enumerator string
Malformed(type, ast) ==
    \/ /\ ast.name \notin LiteralKeys(type) \cup InitializerKeys(type)
       /\ \A e \in EnumKeys(type) : e[1] # ast.name
    \/ ast.name \in LiteralKeys(type) /\ ast.value.kind # "LiteralExpr"
    \/ ast.name \in InitializerKeys(type) /\ ast.value.kind # "StateInitializerExpr"
    \/ \E e \in EnumKeys(type) :
        /\ e[1] = ast.name
        /\ \/ ast.value.kind # "ObjectExpr"
           \/ ast.value.ident \notin e[2]

WellFormedOperationValue(ast) == ~Malformed("StencilOperation", ast)

\* the values of a face initializer of the latest stencil value, if it is one
FaceExprs ==
    IF /\ lastStateValue.decoded
       /\ lastStateValue.stateType = "Stencil"
       /\ lastStateValue.ast.name \in {"back", "front"}
       /\ lastStateValue.ast.value.kind = "StateInitializerExpr"
    THEN lastStateValue.ast.value.exprs
    ELSE <<>>

MaxGlobalStmnts == 3    \* statements of Program::globalStmnts

\* type denoters: sampler types, aliases of a type, base types, arrays, none
SamplerTypeDenoter(samplerType) == [kind |-> "Sampler", samplerType |-> samplerType]
AliasTypeDenoter(aliased) == [kind |-> "Alias", aliased |-> aliased]
BaseTypeDenoter == [kind |-> "Base"]
ArrayTypeDenoter(sub) == [kind |-> "Array", sub |-> sub]
NullTypeDenoter == [kind |-> "Null"]

\* TypeDenoter::GetAliased: the type an alias stands for, any other type itself
RECURSIVE GetAliased(_)
GetAliased(typeDenoter) ==
    IF typeDenoter.kind = "Alias" THEN GetAliased(typeDenoter.aliased)
    ELSE typeDenoter

\* SamplerState or SamplerComparisonState
IsSamplerStateType(t) == t \in {"SamplerState", "SamplerComparisonState"}

IsSamplerStateTypeDenoter(typeDenoter) ==
    IF typeDenoter.kind # "Null"
    THEN LET samplerTypeDen == GetAliased(typeDenoter)
         IN  samplerTypeDen.kind = "Sampler"
             /\ IsSamplerStateType(samplerTypeDen.samplerType)
    ELSE FALSE

\* the statements a program's global list is made of
GlobalStmntMenu ==
    {[kind |-> "SamplerDeclStmnt", typeDenoter |-> SamplerTypeDenoter(t)] :
        t \in {"SamplerState", "Sampler2D"}}
    \cup {[kind |-> "VarDeclStmnt", typeDenoter |-> td] :
            td \in {SamplerTypeDenoter("SamplerState"),
                    SamplerTypeDenoter("SamplerComparisonState"),
                    SamplerTypeDenoter("Sampler2D"),
                    AliasTypeDenoter(SamplerTypeDenoter("SamplerState")),
                    AliasTypeDenoter(BaseTypeDenoter),
                    BaseTypeDenoter}}
    \cup {[kind |-> "BasicDeclStmnt", typeDenoter |-> NullTypeDenoter]}

\* every statement is an object of its own: pos tells equal statements apart
GlobalStmnts(n) ==
    {[i \in 1..n |-> [kind |-> f[i].kind, typeDenoter |-> f[i].typeDenoter, pos |-> i]] :
        f \in [1..n -> GlobalStmntMenu]}

\* MoveAllIf(src, dst, pred): the elements src and dst end up with
MoveAllIfSource(src, Pred(_)) == SelectSeq(src, LAMBDA e : ~Pred(e))
MoveAllIfDest(src, dst, Pred(_)) == dst \o SelectSeq(src, Pred)

\* the predicate VisitProgram passes to MoveAllIf
RemovesSamplerDeclStmntOnly(stmnt) == stmnt.kind = "SamplerDeclStmnt"

RemovesGlobalStmnt(stmnt) ==
    IF stmnt.kind = "SamplerDeclStmnt" THEN TRUE
    ELSE IF stmnt.kind = "VarDeclStmnt"
         THEN IsSamplerStateTypeDenoter(stmnt.typeDenoter)
         ELSE FALSE

\* what the descent moves to the disabled code: sampler-state members of a
\* structure and sampler-state arguments of a call, if any
MovedByDescent ==
    {<<>>,
     <<[kind |-> "VarDeclStmnt", typeDenoter |-> SamplerTypeDenoter("SamplerState"),
        pos |-> 0]>>}

\* IMPLEMENT_VISIT_PROC(Program) up to and including VISIT_DEFAULT(Program)
VisitProgramDefault ==
    /\ lastProgram.stage = "idle"
    /\ lastProgram' = [stage |-> "visiting", globalStmnts |-> globalStmnts,
                       disabledAST |-> disabledAST]
    /\ \E moved \in MovedByDescent :
        disabledAST' = IF isVKSL THEN disabledAST ELSE disabledAST \o moved
    /\ UNCHANGED <<globalStmnts, isVKSL>>
    /\ UNCHANGED othersOfProgram

\* IMPLEMENT_VISIT_PROC(Program) after VISIT_DEFAULT(Program)
VisitProgramMoveSamplers ==
    /\ lastProgram.stage = "visiting"
    /\ lastProgram' = [lastProgram EXCEPT !.stage = "done", !.disabledAST = disabledAST]
    /\ IF ~isVKSL
       THEN /\ globalStmnts' = MoveAllIfSource(globalStmnts, RemovesGlobalStmnt)
            /\ disabledAST' = MoveAllIfDest(globalStmnts, disabledAST, RemovesGlobalStmnt)
       ELSE UNCHANGED <<globalStmnts, disabledAST>>
    /\ UNCHANGED isVKSL
    /\ UNCHANGED othersOfProgram

\* Convert on a program of up to MaxGlobalStmnts global statements
InitProgram ==
    /\ shaderTarget = "VertexShader"
    /\ InitUniformsIdle /\ InitStatesIdle /\ InitFunctionsIdle
    /\ InitStateValuesIdle /\ InitAttributesIdle /\ InitEnumsIdle /\ InitCallsIdle
    /\ InitFurtherIdle
    /\ isVKSL \in BOOLEAN
    /\ options = [obfuscate |-> FALSE, unrollArrayInitializers |-> FALSE,
                  useAlwaysSemantics |-> FALSE]
    /\ status = "idle"
    /\ frames = <<>>
    /\ nodesLeft = 0
    /\ symTable = GlobalScopes
    /\ scopeDecls = <<<<>>>>
    /\ funcDeclStack = <<>>
    /\ structDeclStack = <<>>
    /\ selfParamStack = <<>>
    /\ globalReservedDecls = <<>>
    /\ obfuscationCounter = 0
    /\ anonymCounter = 0
    /\ lastBlock = NoBlock
    /\ lastStruct = NoStruct
    /\ lastDecl = NoDecl
    /\ \E n \in 0..MaxGlobalStmnts : globalStmnts \in GlobalStmnts(n)
    /\ disabledAST = <<>>
    /\ lastProgram = NoProgram

NextProgram ==
    \/ VisitProgramDefault
    \/ VisitProgramMoveSamplers

SpecProgram == InitProgram /\ [][NextProgram]_vars

(***************************************************************************)
(* C12                                                                     *)
(***************************************************************************)
\* a sampler declaration statement, or a variable declaration statement
\* whose type, aliases resolved, is SamplerState or SamplerComparisonState
IsSamplerObjectStmnt(stmnt) ==
    \/ stmnt.kind = "SamplerDeclStmnt"
    \/ /\ stmnt.kind = "VarDeclStmnt"
       /\ GetAliased(stmnt.typeDenoter).kind = "Sampler"
       /\ GetAliased(stmnt.typeDenoter).samplerType
            \in {"SamplerState", "SamplerComparisonState"}

Elements(seq) == {seq[i] : i \in 1..Len(seq)}

\* C12: when VisitProgram is done, for a non-VKSL target the global list
\* holds no sampler declaration statement and no variable declaration of
\* sampler-state type, the other statements are kept in their order, and
\* each removed statement is in the disabled code, added behind what was
\* there; for a VKSL target both lists are as the descent left them.
C12_GlobalSamplersMoved ==
    lastProgram.stage = "done" =>
        IF ~isVKSL
        THEN /\ \A i \in 1..Len(globalStmnts) : ~IsSamplerObjectStmnt(globalStmnts[i])
             /\ globalStmnts = SelectSeq(lastProgram.globalStmnts,
                                         LAMBDA st : ~IsSamplerObjectStmnt(st))
             /\ disabledAST = lastProgram.disabledAST
                                \o SelectSeq(lastProgram.globalStmnts, IsSamplerObjectStmnt)
        ELSE /\ globalStmnts = lastProgram.globalStmnts
             /\ disabledAST = lastProgram.disabledAST

\* a sampler statement and an aliased sampler-state variable were moved
\* from around a statement that stays
C12_Witness ==
    /\ lastProgram.stage = "done"
    /\ ~isVKSL
    /\ Len(lastProgram.globalStmnts) = 3
    /\ Len(globalStmnts) = 1
    /\ \E i \in 1..Len(disabledAST) :
        disabledAST[i].kind = "VarDeclStmnt" /\ disabledAST[i].typeDenoter.kind = "Alias"
    /\ lastProgram.disabledAST # <<>>

(***************************************************************************)
(* ReflectionAnalyzer::VisitProgram: the walk over the declarations, then  *)
(* the attributes of the entry point.                                      *)
(***************************************************************************)
\* IndexedSemantic: a semantic with its index; system is IsSystemValue()
IndexedSemantic(name, index, system) == [name |-> name, index |-> index, system |-> system]

\* IndexedSemantic::ToString: the semantic's name followed by its index
SemanticToString(semantic) == <<semantic.name, semantic.index>>

AttributeVar(ident, semantic) == [ident |-> ident, semantic |-> semantic]

NoSemantic == IndexedSemantic("Undefined", 0, FALSE)

\* Program::entryPointRef: the entry points a program is reflected with
EntryPointRefs ==
    {[varDeclRefs |-> <<>>, varDeclRefsSV |-> <<>>,
      outVarDeclRefs |-> <<>>, outVarDeclRefsSV |-> <<>>, semantic |-> NoSemantic],
     [varDeclRefs |-> <<AttributeVar("coord", IndexedSemantic("TEXCOORD", 0, FALSE)),
                        AttributeVar("normal", IndexedSemantic("TEXCOORD", 1, FALSE))>>,
      varDeclRefsSV |-> <<AttributeVar("id", IndexedSemantic("SV_VertexID", 0, TRUE))>>,
      outVarDeclRefs |-> <<AttributeVar("color", IndexedSemantic("COLOR", 2, FALSE))>>,
      outVarDeclRefsSV |-> <<AttributeVar("pos", IndexedSemantic("SV_Position", 0, TRUE))>>,
      semantic |-> NoSemantic],
     [varDeclRefs |-> <<AttributeVar("color", IndexedSemantic("COLOR", 0, FALSE))>>,
      varDeclRefsSV |-> <<>>,
      outVarDeclRefs |-> <<>>, outVarDeclRefsSV |-> <<>>,
      semantic |-> IndexedSemantic("SV_Target", 1, TRUE)],
     [varDeclRefs |-> <<>>,
      varDeclRefsSV |-> <<AttributeVar("face", IndexedSemantic("SV_IsFrontFace", 0, TRUE))>>,
      outVarDeclRefs |-> <<AttributeVar("a", IndexedSemantic("COLOR", 1, FALSE))>>,
      outVarDeclRefsSV |-> <<AttributeVar("depth", IndexedSemantic("SV_Depth", 0, TRUE)),
                             AttributeVar("mask", IndexedSemantic("SV_Coverage", 0, TRUE))>>,
      semantic |-> IndexedSemantic("COLOR", 3, FALSE)]}

\* push_back({ varDecl->ident, varDecl->semantic.Index() }) for each varDecl
UserAttributes(varDeclRefs) ==
    [i \in 1..Len(varDeclRefs) |->
        BindingSlot(varDeclRefs[i].ident, varDeclRefs[i].semantic.index)]

\* push_back({ varDecl->semantic.ToString(), varDecl->semantic.Index() })
SystemValueAttributes(varDeclRefsSV) ==
    [i \in 1..Len(varDeclRefsSV) |->
        BindingSlot(SemanticToString(varDeclRefsSV[i].semantic),
                    varDeclRefsSV[i].semantic.index)]

\* the slot of the entry point's own semantic
ReturnAttributeAlways(semantic) ==
    <<BindingSlot(SemanticToString(semantic), semantic.index)>>

ReturnAttribute(semantic) ==
    IF semantic.system
    THEN <<BindingSlot(SemanticToString(semantic), semantic.index)>>
    ELSE <<>>

\* Visit(ast->globalStmnts); Visit(ast->disabledAST): the declarations
WalkUniformBufferDecl == ~lastEntryPoint.visited /\ VisitUniformBufferDecl
WalkBufferDeclStmnt == ~lastEntryPoint.visited /\ VisitBufferDeclStmnt
WalkSamplerDecl == ~lastEntryPoint.visited /\ VisitSamplerDecl

\* IMPLEMENT_VISIT_PROC(Program) after the two Visit calls
VisitProgramEntryPoint ==
    /\ ~lastEntryPoint.visited
    /\ \/ /\ lastEntryPoint' = [visited |-> TRUE, hasEntryPoint |-> FALSE,
                                entryPoint |-> <<>>]
          /\ UNCHANGED <<inputAttributes, outputAttributes>>
       \/ \E entryPoint \in EntryPointRefs :
          /\ lastEntryPoint' = [visited |-> TRUE, hasEntryPoint |-> TRUE,
                                entryPoint |-> entryPoint]
          /\ inputAttributes' = inputAttributes
                \o UserAttributes(entryPoint.varDeclRefs)
                \o SystemValueAttributes(entryPoint.varDeclRefsSV)
          /\ outputAttributes' = outputAttributes
                \o UserAttributes(entryPoint.outVarDeclRefs)
                \o SystemValueAttributes(entryPoint.outVarDeclRefsSV)
                \o ReturnAttribute(entryPoint.semantic)
    /\ UNCHANGED othersOfAttributes

\* Reflect on a fresh record and any program
InitReflect ==
    /\ shaderTarget \in ShaderTargets
    /\ InitUniformsIdle /\ InitStatesIdle /\ InitFunctionsIdle
    /\ InitConvertIdle
    /\ InitExtraIdle

NextReflect ==
    \/ WalkUniformBufferDecl
    \/ WalkBufferDeclStmnt
    \/ WalkSamplerDecl
    \/ VisitProgramEntryPoint

SpecReflect == InitReflect /\ [][NextReflect]_vars

(***************************************************************************)
(* C13                                                                     *)
(***************************************************************************)
\* the registers of a list that name no target or the current one
MatchingRegisters(slotRegisters) ==
    {i \in 1..Len(slotRegisters) :
        slotRegisters[i].shaderTarget \in {"Undefined", shaderTarget}}

\* the buffer declarations visited so far, textures or storage buffers
RECURSIVE DeclaredBuffers(_, _)
DeclaredBuffers(k, storage) ==
    IF k = 0 THEN <<>>
    ELSE DeclaredBuffers(k - 1, storage)
         \o (IF /\ visited[k].ast.kind = "BufferDeclStmnt"
                /\ IsStorageBufferType(visited[k].ast.typeDenoter.bufferType) = storage
             THEN visited[k].ast.bufferDecls
             ELSE <<>>)

DeclaredConstantBuffers ==
    LET decls == SelectSeq(visited, LAMBDA v : v.ast.kind = "UniformBufferDecl")
    IN  [i \in 1..Len(decls) |-> decls[i].ast]

\* the slots were appended for the declarations, one each and in order, and
\* each location is the slot of the first matching register, -1 iff none
ResourceSlotsOf(slots, decls) ==
    /\ Len(slots) = Len(decls)
    /\ \A i \in 1..Len(slots) :
        LET matching == MatchingRegisters(decls[i].slotRegisters)
        IN  /\ slots[i].ident = decls[i].ident
            /\ (slots[i].location = -1) <=> (matching = {})
            /\ matching # {} =>
                \E r \in matching :
                    /\ \A q \in matching : r <= q
                    /\ slots[i].location = decls[i].slotRegisters[r].slot

\* C13: every binding slot of textures, storageBuffers, constantBuffers,
\* inputAttributes and outputAttributes has a location that is >= 0 or -1;
\* the location of a resource slot is the slot of the register selected for
\* the current shader target, and -1 exactly when no register matches.
C13_BindingSlotLocations ==
    /\ \A slots \in {textures, storageBuffers, constantBuffers,
                     inputAttributes, outputAttributes} :
        \A i \in 1..Len(slots) : slots[i].location >= 0 \/ slots[i].location = -1
    /\ ResourceSlotsOf(textures, DeclaredBuffers(Len(visited), FALSE))
    /\ ResourceSlotsOf(storageBuffers, DeclaredBuffers(Len(visited), TRUE))
    /\ ResourceSlotsOf(constantBuffers, DeclaredConstantBuffers)

\* a texture whose only register is for another target, a constant buffer
\* with a register for this target, and attributes of an entry point
C13_Witness ==
    /\ \E i \in 1..Len(textures) :
        /\ textures[i].location = -1
        /\ DeclaredBuffers(Len(visited), FALSE)[i].slotRegisters # <<>>
    /\ \E i \in 1..Len(constantBuffers) : constantBuffers[i].location = 2
    /\ inputAttributes # <<>>
    /\ outputAttributes # <<>>

(***************************************************************************)
(* ASTEnums: AssignOp, BinaryOp, UnaryOp and CtrlTransfer and their        *)
(* strings.  The maps list their entries in the order of the enumeration.  *)
(***************************************************************************)
g_mapAssignOp ==
    <<<<"Set", "=">>, <<"Add", "+=">>, <<"Sub", "-=">>, <<"Mul", "*=">>,
      <<"Div", "/=">>, <<"Mod", "%=">>, <<"LShift", "<<=">>, <<"RShift", ">>=">>,
      <<"Or", "|=">>, <<"And", "&=">>, <<"Xor", "^=">>>>

g_mapBinaryOp ==
    <<<<"LogicalAnd", "&&">>, <<"LogicalOr", "||">>, <<"Or", "|">>, <<"Xor", "^">>,
      <<"And", "&">>, <<"LShift", "<<">>, <<"RShift", ">>">>, <<"Add", "+">>,
      <<"Sub", "-">>, <<"Mul", "*">>, <<"Div", "/">>, <<"Mod", "%">>,
      <<"Equal", "==">>, <<"NotEqual", "!=">>, <<"Less", "<">>, <<"Greater", ">">>,
      <<"LessEqual", "<=">>, <<"GreaterEqual", ">=">>>>

\* a map in which the no-op and the negation are written alike
g_mapUnaryOpAmbiguous ==
    <<<<"LogicalNot", "!">>, <<"Not", "~">>, <<"Nop", "+">>, <<"Negate", "+">>,
      <<"Inc", "++">>, <<"Dec", "--">>>>

g_mapUnaryOp ==
    <<<<"LogicalNot", "!">>, <<"Not", "~">>, <<"Nop", "+">>, <<"Negate", "-">>,
      <<"Inc", "++">>, <<"Dec", "--">>>>

g_mapCtrlTransfer ==
    <<<<"Break", "break">>, <<"Continue", "continue">>, <<"Discard", "discard">>>>

AssignOpToString(o) == TypeToString(g_mapAssignOp, o, "AssignOp")
StringToAssignOp(s) == StringToType(g_mapAssignOp, s, "AssignOp")
BinaryOpToString(o) == TypeToString(g_mapBinaryOp, o, "BinaryOp")
StringToBinaryOp(s) == StringToType(g_mapBinaryOp, s, "BinaryOp")
UnaryOpToString(o) == TypeToString(g_mapUnaryOp, o, "UnaryOp")
StringToUnaryOp(s) == StringToType(g_mapUnaryOp, s, "UnaryOp")
CtrlTransformToString(ct) == TypeToString(g_mapCtrlTransfer, ct, "CtrlTransfer")
StringToCtrlTransfer(s) == StringToType(g_mapCtrlTransfer, s, "CtrlTransfer")

\* the enumerators of the four enumerations
AssignOp == {"Undefined", "Set", "Add", "Sub", "Mul", "Div", "Mod", "LShift",
             "RShift", "Or", "And", "Xor"}
BinaryOp == {"Undefined", "LogicalAnd", "LogicalOr", "Or", "Xor", "And", "LShift",
             "RShift", "Add", "Sub", "Mul", "Div", "Mod", "Equal", "NotEqual",
             "Less", "Greater", "LessEqual", "GreaterEqual"}
UnaryOp == {"Undefined", "LogicalNot", "Not", "Nop", "Negate", "Inc", "Dec"}
CtrlTransfer == {"Undefined", "Break", "Continue", "Discard"}

OperatorEnums == {"AssignOp", "BinaryOp", "UnaryOp", "CtrlTransfer"}

EnumeratorsOf(family) ==
    CASE family = "AssignOp" -> AssignOp
      [] family = "BinaryOp" -> BinaryOp
      [] family = "UnaryOp" -> UnaryOp
      [] family = "CtrlTransfer" -> CtrlTransfer

XToString(family, o) ==
    CASE family = "AssignOp" -> AssignOpToString(o)
      [] family = "BinaryOp" -> BinaryOpToString(o)
      [] family = "UnaryOp" -> UnaryOpToString(o)
      [] family = "CtrlTransfer" -> CtrlTransformToString(o)

StringToX(family, str) ==
    CASE family = "AssignOp" -> StringToAssignOp(str)
      [] family = "BinaryOp" -> StringToBinaryOp(str)
      [] family = "UnaryOp" -> StringToUnaryOp(str)
      [] family = "CtrlTransfer" -> StringToCtrlTransfer(str)

\* the strings the parsers are called with: every operator spelling, and
\* strings that spell no operator of any enumeration
OperatorStrings ==
    UNION {Enumerators(typeMap) :
            typeMap \in {g_mapAssignOp, g_mapBinaryOp, g_mapUnaryOp, g_mapCtrlTransfer}}
    \cup {"", "=>", "return", "Set", "Undefined"}

Returned(r) == [returned |-> TRUE, failed |-> r.failed,
                value |-> IF r.failed THEN "" ELSE r.value,
                what |-> IF r.failed THEN <<"failed to map", r.from, "to", r.to>>
                         ELSE <<>>]

\* XToString(o) is called
CallXToString ==
    /\ enumCall.fn = "ToString"
    /\ ~enumResult.returned
    /\ enumResult' = Returned(XToString(enumCall.family, enumCall.arg))
    /\ UNCHANGED enumCall
    /\ UNCHANGED othersOfEnums

\* StringToX(s) is called
CallStringToX ==
    /\ enumCall.fn = "FromString"
    /\ ~enumResult.returned
    /\ enumResult' = Returned(StringToX(enumCall.family, enumCall.arg))
    /\ UNCHANGED enumCall
    /\ UNCHANGED othersOfEnums

\* the string XToString(o) returned is handed to StringToX
CallStringToXOnResult ==
    /\ enumCall.fn = "ToString"
    /\ enumResult.returned
    /\ ~enumResult.failed
    /\ enumCall' = [family |-> enumCall.family, fn |-> "FromString",
                    arg |-> enumResult.value, from |-> enumCall.arg]
    /\ enumResult' = NoResult
    /\ UNCHANGED othersOfEnums

\* any of the eight conversions is called with any argument
InitEnums ==
    /\ shaderTarget = "VertexShader"
    /\ InitUniformsIdle /\ InitStatesIdle /\ InitFunctionsIdle
    /\ InitConvertIdle
    /\ InitStateValuesIdle /\ InitProgramIdle /\ InitAttributesIdle
    /\ InitCallsIdle /\ InitFurtherIdle
    /\ \E family \in OperatorEnums :
        \/ \E o \in EnumeratorsOf(family) :
            enumCall = [family |-> family, fn |-> "ToString", arg |-> o, from |-> ""]
        \/ \E str \in OperatorStrings :
            enumCall = [family |-> family, fn |-> "FromString", arg |-> str, from |-> ""]
    /\ enumResult = NoResult

NextEnums ==
    \/ CallXToString
    \/ CallStringToX
    \/ CallStringToXOnResult

SpecEnums == InitEnums /\ [][NextEnums]_vars

(***************************************************************************)
(* C14                                                                     *)
(***************************************************************************)
\* C14: for AssignOp, BinaryOp, UnaryOp and CtrlTransfer, StringToX of the
\* string XToString returned for an enumerator other than Undefined is that
\* enumerator; XToString gives different strings to different enumerators;
\* StringToX of a string that spells no enumerator of the enumeration, and
\* XToString of Undefined, raise the invalid-argument mapping failure.
C14_OperatorStringsRoundTrip ==
    /\ \A family \in OperatorEnums :
        \A o1, o2 \in EnumeratorsOf(family) \ {"Undefined"} :
            o1 # o2 => XToString(family, o1).value # XToString(family, o2).value
    /\ enumResult.returned =>
        /\ (enumCall.fn = "ToString" /\ enumCall.arg # "Undefined")
            => ~enumResult.failed
        /\ (enumCall.fn = "ToString" /\ enumCall.arg = "Undefined")
            => enumResult.failed /\ enumResult.what[1] = "failed to map"
        /\ (enumCall.fn = "FromString" /\ enumCall.from # "")
            => ~enumResult.failed /\ enumResult.value = enumCall.from
        /\ (enumCall.fn = "FromString" /\ enumCall.from = "")
            => (enumResult.failed <=>
                    \A o \in EnumeratorsOf(enumCall.family) \ {"Undefined"} :
                        XToString(enumCall.family, o).value # enumCall.arg)

\* the negation went to its string and back
C14_Witness ==
    /\ enumCall = [family |-> "UnaryOp", fn |-> "FromString", arg |-> "-",
                   from |-> "Negate"]
    /\ enumResult.returned

(***************************************************************************)
(* C15                                                                     *)
(***************************************************************************)
\* one slot per variable: the identifier of varDecls[i] (the variable's own
\* or its semantic string) with the semantic index
SlotsNamed(varDecls, bySemantic) ==
    [i \in 1..Len(varDecls) |->
        [ident |-> IF bySemantic
                   THEN <<varDecls[i].semantic.name, varDecls[i].semantic.index>>
                   ELSE varDecls[i].ident,
         location |-> varDecls[i].semantic.index]]

\* C15: once the walk over the program is finished, the analyzer has
\* appended to inputAttributes one slot per input semantic variable of the
\* entry point, the user-named ones under the variable identifier before
\* the system-value ones under the semantic string, and likewise to
\* outputAttributes, followed by one slot for the entry point's own
\* semantic iff that is a system value; each location is the semantic
\* index; without entry point nothing is appended; nothing is appended
\* before the walk is finished.
C15_EntryPointAttributes ==
    /\ ~lastEntryPoint.visited => inputAttributes = <<>> /\ outputAttributes = <<>>
    /\ (lastEntryPoint.visited /\ ~lastEntryPoint.hasEntryPoint)
        => inputAttributes = <<>> /\ outputAttributes = <<>>
    /\ (lastEntryPoint.visited /\ lastEntryPoint.hasEntryPoint)
        => LET ep == lastEntryPoint.entryPoint
           IN  /\ inputAttributes = SlotsNamed(ep.varDeclRefs, FALSE)
                                      \o SlotsNamed(ep.varDeclRefsSV, TRUE)
               /\ \E return \in {<<>>, SlotsNamed(<<[semantic |-> ep.semantic]>>, TRUE)} :
                    /\ (return # <<>>) <=> ep.semantic.system
                    /\ outputAttributes = SlotsNamed(ep.outVarDeclRefs, FALSE)
                                            \o SlotsNamed(ep.outVarDeclRefsSV, TRUE)
                                            \o return

\* an entry point with user-named and system-value inputs whose own
\* semantic is no system value, reflected after a declaration was visited
C15_Witness ==
    /\ lastEntryPoint.visited
    /\ lastEntryPoint.hasEntryPoint
    /\ Len(inputAttributes) = 1
    /\ Len(outputAttributes) = 3
    /\ ~lastEntryPoint.entryPoint.semantic.system
    /\ visited # <<>>

(***************************************************************************)
(* C16                                                                     *)
(***************************************************************************)
\* the "index" keys of a target initializer
IndexKeys(exprs) == SelectSeq(exprs, LAMBDA e : e.name = "index")

\* the step decodes a target entry with an initializer
TargetStep ==
    /\ valuesLeft' = valuesLeft - 1
    /\ lastValue'.name = "target"
    /\ lastValue'.isInitializer

\* the step visits a state declaration whose initializer has values
NewDeclStep == numStateDecls' = numStateDecls + 1 /\ valuesLeft' > 0

\* the step decodes the initializer into targets[i] and into no other target
DecodedInto(i) ==
    /\ i \in DOMAIN blendState.targets
    /\ blendState'.targets =
         [blendState.targets EXCEPT ![i] =
            ReflectBlendStateTargetValues(
                lastValue'.ast.value.exprs,
                [target |-> blendState.targets[i], reports |-> 0]).target]

CursorAt(n) == UInt32(IntLiteral(n))

\* the step decodes a target with the one explicit index i, 0 <= i < 8,
\* into targets[i] and leaves the cursor at i + 1
ExplicitIndexStep ==
    LET keys == IndexKeys(lastValue'.ast.value.exprs)
    IN  \A i \in 0..(MAX_NUM_RENDER_TARGETS - 1) :
            (Len(keys) = 1 /\ keys[1].value = LiteralExpr(IntLiteral(i)))
                => DecodedInto(i) /\ blendTargetIdx' = CursorAt(i + 1)

\* C16 as stated: the cursor is 0 when the values of a blend state
\* declaration start; a target without index is decoded into
\* targets[cursor] and the cursor advances by one; a target with explicit
\* index i, 0 <= i < 8, is decoded into targets[i] and the cursor becomes
\* i + 1.
C16_CursorAsStated ==
    [][/\ NewDeclStep => blendTargetIdx' = CursorAt(0)
       /\ TargetStep =>
            /\ IndexKeys(lastValue'.ast.value.exprs) = <<>>
                => /\ blendTargetIdx.hi = 0
                   /\ DecodedInto(blendTargetIdx.lo)
                   /\ blendTargetIdx' = CursorAt(blendTargetIdx.lo + 1)
            /\ ExplicitIndexStep]_vars

\* C16, amended: as stated while the cursor is below 8; a target without
\* index that finds the cursor at 8 or more (after a target at index 7 or
\* after an explicit index outside 0..7) is not decoded, and the cursor and
\* the blend state stay as they are.
C16_CursorWithinTargets ==
    [][/\ NewDeclStep => blendTargetIdx' = CursorAt(0)
       /\ TargetStep =>
            /\ IndexKeys(lastValue'.ast.value.exprs) = <<>>
                => IF UInt32Less(blendTargetIdx, MAX_NUM_RENDER_TARGETS)
                   THEN /\ DecodedInto(blendTargetIdx.lo)
                        /\ blendTargetIdx' = CursorAt(blendTargetIdx.lo + 1)
                   ELSE /\ blendState' = blendState
                        /\ blendTargetIdx' = blendTargetIdx
            /\ ExplicitIndexStep]_vars

\* the second target without index of a declaration was decoded into
\* targets[1]
C16_Witness ==
    /\ lastValue.name = "target"
    /\ lastValue.isInitializer
    /\ IndexKeys(lastValue.ast.value.exprs) = <<>>
    /\ lastValue.writes = {1}
    /\ blendTargetIdx = CursorAt(2)

(***************************************************************************)
(* C17                                                                     *)
(***************************************************************************)
\* the declarators of a constant buffer's member statements, in order, each
\* with the type denoter of its statement
RECURSIVE Declarators(_)
Declarators(varMembers) ==
    IF varMembers = <<>> THEN <<>>
    ELSE LET stmt == Head(varMembers)
         IN  [j \in 1..Len(stmt.varDecls) |->
                [ident |-> stmt.varDecls[j].ident,
                 available |-> stmt.varDecls[j].available,
                 typeDenoter |-> stmt.typeDenoter]]
             \o Declarators(Tail(varMembers))

\* C17: for every variable of a constant buffer whose declarator has a
\* default value attached, whatever the type of the member (base, struct
\* or array), the uniform's defaultValue is the index of an entry of
\* defaultValues; without default value it is -1.
C17_DefaultValueForEveryType ==
    \A k \in 1..Len(visited) :
        visited[k].ast.kind = "UniformBufferDecl" =>
            LET decls == Declarators(visited[k].ast.varMembers)
            IN  \A j \in 1..Len(decls) :
                    LET u == uniforms[visited[k].firstUniform + 1 + j]
                    IN  IF decls[j].available
                        THEN u.defaultValue \in 0..(Len(defaultValues) - 1)
                        ELSE u.defaultValue = -1

(***************************************************************************)
(* GLSLConverter::VisitCallExpr and the self parameter of member           *)
(* functions: a walk over function declarations and the call expressions   *)
(* inside and outside of them                                              *)
(***************************************************************************)
MaxCalls == 3           \* function declarations and calls of one program

StructTypeDenoter(ident) == [kind |-> "Struct", ident |-> ident]
BufferTypeDenoter(bufferType) == [kind |-> "Buffer", bufferType |-> bufferType]
DataTypeDenoter(dataType) == [kind |-> "Base", dataType |-> dataType]

\* an expression that names a variable, with the type denoter it evaluates to
VarExpr(ident, typeDenoter) ==
    [kind |-> "ObjectExpr", ident |-> ident, typeDenoter |-> typeDenoter]

\* object[index], of the element type
IndexedExpr(prefixExpr, arrayIndices, typeDenoter) ==
    [kind |-> "ArrayExpr", prefixExpr |-> prefixExpr,
     arrayIndices |-> arrayIndices, typeDenoter |-> typeDenoter]

NullExpr == [kind |-> "Null"]

\* ASTFactory::MakeCastExpr around an expression
MakeCastExpr(typeDenoter, expr) ==
    [kind |-> "CastExpr", typeDenoter |-> typeDenoter, expr |-> expr]

\* ASTFactory::MakeLiteralCastExpr: a literal of the given data type cast
\* to the type denoter
MakeLiteralCastExpr(typeDenoter, literalType, literalValue) ==
    MakeCastExpr(typeDenoter,
                 [kind |-> "LiteralExpr", dataType |-> literalType,
                  value |-> literalValue,
                  typeDenoter |-> DataTypeDenoter(literalType)])

\* ASTFactory::MakeTextureSamplerBindingCallExpr: the call that binds the
\* texture object to the sampler state
MakeTextureSamplerBindingCallExpr(textureObjectExpr, samplerObjectExpr) ==
    [kind |-> "CallExpr", binding |-> TRUE,
     arguments |-> <<textureObjectExpr, samplerObjectExpr>>,
     typeDenoter |-> SamplerTypeDenoter("Sampler2D")]

\* ASTFactory::MakeObjectExpr: a reference to the declared variable
MakeObjectExpr(varDecl) ==
    [kind |-> "ObjectExpr", ident |-> varDecl.ident,
     typeDenoter |-> varDecl.typeDenoter, symbolRef |-> varDecl]

\* ASTFactory::MakeVarDeclStmnt with one declarator
MakeVarDeclStmnt(typeDenoter, ident) ==
    [kind |-> "VarDeclStmnt", ident |-> ident, typeDenoter |-> typeDenoter,
     flags |-> {}]

\* TypeDenoter::GetSub without an expression: the type behind the aliases
GetSub(typeDenoter) == GetAliased(typeDenoter)

IsBase(typeDenoter) == typeDenoter.kind = "Base"

\* the intrinsics of the Texture_ family
IsTextureIntrinsic(t) ==
    t \in {"Texture_GetDimensions", "Texture_Load_1", "Texture_Sample_2",
           "Texture_Sample_3", "Texture_SampleLevel_3", "Texture_SampleLevel_4"}

IsRWTextureBufferType(t) == t \in {"RWTexture1D", "RWTexture2D", "RWTexture3D"}

InterlockedToImageAtomicIntrinsic(t) ==
    IF t = "InterlockedAdd" THEN "Image_AtomicAdd" ELSE t

\* ExprConverter::ConvertExprIfCastRequired: the expression, inside a cast
\* to the wanted data type when its own base type differs
ConvertExprIfCastRequired(expr, dataType) ==
    IF IsBase(GetAliased(expr.typeDenoter))
       /\ GetAliased(expr.typeDenoter).dataType # dataType
    THEN MakeCastExpr(DataTypeDenoter(dataType), expr)
    ELSE expr

\* a call expression
Call(intrinsic, prefixExpr, arguments, funcDeclRef) ==
    [intrinsic |-> intrinsic, prefixExpr |-> prefixExpr,
     arguments |-> arguments, funcDeclRef |-> funcDeclRef]

\* the function a call resolves to
FuncRef(ident, member, static) ==
    [ident |-> ident, IsMemberFunction |-> member, IsStatic |-> static]
NullFuncRef == [ident |-> "", IsMemberFunction |-> FALSE, IsStatic |-> FALSE]

\* where the self-parameter stack of ConvertFunctionDecl stands: its top entry
SelfParameter == selfParamStack[Len(selfParamStack)]

\* arguments.push_back(expr), and arguments.insert(arguments.begin(), expr)
InsertAtEnd(arguments, expr) == arguments \o <<expr>>
InsertAtBegin(arguments, expr) == <<expr>> \o arguments

\* CallExpr::PushArgumentFront
PushArgumentFront(ast, expr) ==
    [ast EXCEPT !.arguments = <<expr>> \o ast.arguments]

\* the first part of VisitCallExpr: the texture object of a texture
\* intrinsic becomes an argument, or is bound to the sampler-state argument
PrefixToArgument(ast) ==
    IF ast.intrinsic # "Undefined"
       /\ IsTextureIntrinsic(ast.intrinsic) /\ ast.prefixExpr # NullExpr
    THEN IF isVKSL
         THEN IF ast.arguments # <<>>
                 /\ IsSamplerStateTypeDenoter(ast.arguments[1].typeDenoter)
              THEN [ast EXCEPT !.arguments[1] =
                        MakeTextureSamplerBindingCallExpr(ast.prefixExpr,
                                                          ast.arguments[1])]
              ELSE ast
         ELSE [ast EXCEPT !.arguments = InsertAtBegin(ast.arguments,
                                                      ast.prefixExpr)]
    ELSE ast

IsSamplerStateExpr(expr) == IsSamplerStateTypeDenoter(expr.typeDenoter)

\* the outcome of a conversion function: the call as it leaves it, and
\* whether RuntimeErr was thrown
Converted(ast) == [ast |-> ast, raised |-> FALSE]
RuntimeErr(ast) == [ast |-> ast, raised |-> TRUE]

\* saturate(x) becomes clamp(x, genType(0), genType(1))
ConvertIntrinsicCallSaturateOneCast(ast) ==
    IF Len(ast.arguments) = 1
    THEN LET argTypeDen == GetSub(ast.arguments[1].typeDenoter)
         IN  IF IsBase(argTypeDen)
             THEN Converted([ast EXCEPT
                      !.intrinsic = "Clamp",
                      !.arguments = ast.arguments
                          \o <<MakeLiteralCastExpr(argTypeDen, "Int", "1")>>])
             ELSE RuntimeErr(ast)
    ELSE RuntimeErr(ast)

ConvertIntrinsicCallSaturate(ast) ==
    IF Len(ast.arguments) = 1
    THEN LET argTypeDen == GetSub(ast.arguments[1].typeDenoter)
         IN  IF IsBase(argTypeDen)
             THEN Converted([ast EXCEPT
                      !.intrinsic = "Clamp",
                      !.arguments = ast.arguments
                          \o <<MakeLiteralCastExpr(argTypeDen, "Int", "0")>>
                          \o <<MakeLiteralCastExpr(argTypeDen, "Int", "1")>>])
             ELSE RuntimeErr(ast)
    ELSE RuntimeErr(ast)

\* the vector size of the texture object's coordinates
GetTextureVectorSizeFromIntrinsicCall(ast) ==
    IF ast.prefixExpr # NullExpr /\ ast.prefixExpr.kind = "ObjectExpr"
       /\ ast.prefixExpr.typeDenoter.kind = "Buffer"
    THEN CASE ast.prefixExpr.typeDenoter.bufferType = "Texture1D" -> 1
           [] ast.prefixExpr.typeDenoter.bufferType
                  \in {"Texture1DArray", "Texture2D", "Texture2DMS"} -> 2
           [] ast.prefixExpr.typeDenoter.bufferType
                  \in {"Texture2DArray", "Texture2DMSArray", "Texture3D",
                       "TextureCube"} -> 3
           [] ast.prefixExpr.typeDenoter.bufferType = "TextureCubeArray" -> 4
           [] OTHER -> 0
    ELSE 0

VectorDataType(baseDataType, vectorSize) ==
    IF vectorSize = 1 THEN baseDataType ELSE <<baseDataType, vectorSize>>

\* the arguments with the one at position i (counted from 0) cast if needed
CastArgument(args, i, dataType) ==
    IF Len(args) >= i + 1
    THEN [args EXCEPT ![i + 1] = ConvertExprIfCastRequired(args[i + 1], dataType)]
    ELSE args

ConvertIntrinsicCallTextureSample(ast) ==
    LET vectorSize == GetTextureVectorSizeFromIntrinsicCall(ast)
    IN  IF vectorSize # 0
        THEN [ast EXCEPT !.arguments =
                 CastArgument(
                     CastArgument(ast.arguments, 1,
                                  VectorDataType("Float", vectorSize)),
                     2, VectorDataType("Int", vectorSize))]
        ELSE ast

ConvertIntrinsicCallTextureSampleLevel(ast) ==
    LET vectorSize == GetTextureVectorSizeFromIntrinsicCall(ast)
    IN  IF vectorSize # 0
        THEN [ast EXCEPT !.arguments =
                 CastArgument(
                     CastArgument(ast.arguments, 1,
                                  VectorDataType("Float", vectorSize)),
                     3, VectorDataType("Int", vectorSize))]
        ELSE ast

\* atomic* becomes imageAtomic* on a read/write texture
ConvertIntrinsicCallImageAtomic(ast) ==
    IF Len(ast.arguments) >= 2
    THEN LET arg0Expr == ast.arguments[1]
         IN  IF arg0Expr.kind = "ArrayExpr"
             THEN LET typeDen == GetAliased(arg0Expr.prefixExpr.typeDenoter)
                      indices == arg0Expr.arrayIndices
                      front == SubSeq(indices, 1, Len(indices) - 1)
                  IN  IF typeDen.kind = "Buffer"
                         /\ IsRWTextureBufferType(typeDen.bufferType)
                      THEN [ast EXCEPT
                               !.intrinsic =
                                   InterlockedToImageAtomicIntrinsic(ast.intrinsic),
                               !.arguments =
                                   <<IF front = <<>> THEN arg0Expr.prefixExpr
                                     ELSE [arg0Expr EXCEPT !.arrayIndices = front]>>
                                   \o <<indices[Len(indices)]>>
                                   \o Tail(ast.arguments)]
                      ELSE ast
             ELSE LET typeDen == GetAliased(arg0Expr.typeDenoter)
                  IN  IF typeDen.kind = "Buffer"
                         /\ IsRWTextureBufferType(typeDen.bufferType)
                      THEN [ast EXCEPT !.intrinsic =
                               InterlockedToImageAtomicIntrinsic(ast.intrinsic)]
                      ELSE ast
    ELSE ast

ConvertIntrinsicCall(ast) ==
    CASE ast.intrinsic = "Saturate" -> ConvertIntrinsicCallSaturate(ast)
      [] ast.intrinsic \in {"Texture_Sample_2", "Texture_Sample_3"} ->
             Converted(ConvertIntrinsicCallTextureSample(ast))
      [] ast.intrinsic \in {"Texture_SampleLevel_3", "Texture_SampleLevel_4"} ->
             Converted(ConvertIntrinsicCallTextureSampleLevel(ast))
      [] ast.intrinsic = "InterlockedAdd" ->
             Converted(ConvertIntrinsicCallImageAtomic(ast))
      [] OTHER -> Converted(ast)

\* a static member function called with its prefix kept
DropPrefixNever(ast) == ast
\* prefixExpr.reset()
DropPrefix(ast) == [ast EXCEPT !.prefixExpr = NullExpr]

ConvertFunctionCall(ast) ==
    IF ast.funcDeclRef # NullFuncRef /\ ast.funcDeclRef.IsMemberFunction
    THEN IF ast.funcDeclRef.IsStatic
         THEN Converted(DropPrefix(ast))
         ELSE IF ast.prefixExpr # NullExpr
              THEN Converted(PushArgumentFront(
                       [ast EXCEPT !.prefixExpr = NullExpr], ast.prefixExpr))
              ELSE IF selfParamStack # <<>>
                   THEN Converted(PushArgumentFront(
                            ast, MakeObjectExpr(SelfParameter)))
                   ELSE RuntimeErr(ast)
    ELSE Converted(ast)

\* the objects the calls of a program speak about
TextureExpr == VarExpr("tex", BufferTypeDenoter("Texture2D"))
RWTextureExpr == VarExpr("img", BufferTypeDenoter("RWTexture2D"))
RWBufferExpr == VarExpr("buf", BufferTypeDenoter("RWBuffer"))
SamplerStateExpr == VarExpr("smp", SamplerTypeDenoter("SamplerState"))
SamplerCmpExpr ==
    VarExpr("cmp", AliasTypeDenoter(SamplerTypeDenoter("SamplerComparisonState")))
FloatExpr == VarExpr("x", DataTypeDenoter("Float"))
Float2Expr == VarExpr("uv", DataTypeDenoter(<<"Float", 2>>))
Int2Expr == VarExpr("off", DataTypeDenoter(<<"Int", 2>>))
Float3Expr == VarExpr("v", AliasTypeDenoter(DataTypeDenoter(<<"Float", 3>>)))
StructExpr == VarExpr("obj", StructTypeDenoter("S"))

\* the call expressions of a program
CallExprMenu ==
    {\* tex.Sample(smp, uv), with offset, level, and the coordinate as int2
     Call("Texture_Sample_2", TextureExpr, <<SamplerStateExpr, Float2Expr>>,
          NullFuncRef),
     Call("Texture_Sample_3", TextureExpr,
          <<SamplerCmpExpr, Int2Expr, Float2Expr>>, NullFuncRef),
     Call("Texture_SampleLevel_4", TextureExpr,
          <<SamplerStateExpr, Float2Expr, FloatExpr, Float2Expr>>, NullFuncRef),
     \* tex.Load(off), tex.GetDimensions()
     Call("Texture_Load_1", TextureExpr, <<Int2Expr>>, NullFuncRef),
     Call("Texture_GetDimensions", TextureExpr, <<>>, NullFuncRef),
     \* a texture intrinsic without a prefix object
     Call("Texture_Sample_2", NullExpr, <<SamplerStateExpr, Float2Expr>>,
          NullFuncRef),
     \* saturate(x), saturate(v), saturate(obj), saturate(x, x), saturate()
     Call("Saturate", NullExpr, <<FloatExpr>>, NullFuncRef),
     Call("Saturate", NullExpr, <<Float3Expr>>, NullFuncRef),
     Call("Saturate", NullExpr, <<StructExpr>>, NullFuncRef),
     Call("Saturate", NullExpr, <<SamplerStateExpr>>, NullFuncRef),
     Call("Saturate", NullExpr, <<FloatExpr, FloatExpr>>, NullFuncRef),
     Call("Saturate", NullExpr, <<SamplerStateExpr, FloatExpr>>, NullFuncRef),
     Call("Saturate", NullExpr, <<>>, NullFuncRef),
     \* InterlockedAdd(img[off], x), InterlockedAdd(buf, x), dot(uv, uv)
     Call("InterlockedAdd", NullExpr,
          <<IndexedExpr(RWTextureExpr, <<Int2Expr>>, DataTypeDenoter("Int")),
            FloatExpr>>, NullFuncRef),
     Call("InterlockedAdd", NullExpr, <<RWBufferExpr, FloatExpr>>, NullFuncRef),
     Call("Dot", NullExpr, <<Float2Expr, Float2Expr>>, NullFuncRef),
     \* f(x), f(smp, x), a call that did not resolve
     Call("Undefined", NullExpr, <<FloatExpr>>, FuncRef("f", FALSE, FALSE)),
     Call("Undefined", NullExpr, <<SamplerStateExpr, FloatExpr>>,
          FuncRef("g", FALSE, FALSE)),
     Call("Undefined", NullExpr, <<FloatExpr>>, NullFuncRef),
     \* S::sm(x), obj.sm(x), obj.m(x), m(x), m()
     Call("Undefined", VarExpr("S", StructTypeDenoter("S")), <<FloatExpr>>,
          FuncRef("sm", TRUE, TRUE)),
     Call("Undefined", NullExpr, <<FloatExpr, Float2Expr>>,
          FuncRef("sm", TRUE, TRUE)),
     Call("Undefined", StructExpr, <<FloatExpr, Float2Expr>>,
          FuncRef("m", TRUE, FALSE)),
     Call("Undefined", NullExpr, <<FloatExpr>>, FuncRef("m", TRUE, FALSE)),
     Call("Undefined", NullExpr, <<>>, FuncRef("m", TRUE, FALSE))}

\* a parameter of a function declaration
Parameter(ident, typeDenoter) == MakeVarDeclStmnt(typeDenoter, ident)

FunctionDecl(ident, structDeclRef, static, parameters) ==
    [ident |-> ident, structDeclRef |-> structDeclRef, IsStatic |-> static,
     parameters |-> parameters]

\* the function declarations of a program: global functions, a static and
\* three non-static member functions of structure S
FunctionDeclMenu ==
    {FunctionDecl("f", "", FALSE, <<Parameter("x", DataTypeDenoter("Float"))>>),
     FunctionDecl("g", "", FALSE,
                  <<Parameter("smp", SamplerTypeDenoter("SamplerState")),
                    Parameter("x", DataTypeDenoter("Float"))>>),
     FunctionDecl("sm", "S", TRUE, <<Parameter("x", DataTypeDenoter("Float"))>>),
     FunctionDecl("m", "S", FALSE, <<Parameter("x", DataTypeDenoter("Float"))>>),
     FunctionDecl("n", "S", FALSE,
                  <<Parameter("smp", SamplerTypeDenoter("SamplerState")),
                    Parameter("self", DataTypeDenoter("Float"))>>),
     FunctionDecl("p", "S", FALSE, <<>>)}

\* the self parameter ConvertFunctionDecl makes for a member function
MakeSelfParameter(structDeclRef) ==
    [MakeVarDeclStmnt(StructTypeDenoter(structDeclRef),
                      <<NameMangling.namespacePrefix, "self">>)
     EXCEPT !.flags = {"isSelfParameter"}]

\* whether ConvertFunctionDecl makes a self parameter for the declaration
NeedsSelfParameter(ast) == ast.structDeclRef # "" /\ ~ast.IsStatic

\* PushSelfParameter, and a function entered without it
PushSelfParameterNever(stack, parameter) == stack
PushSelfParameter(stack, parameter) == Append(stack, parameter)

\* PopSelfParameter
PopSelfParameter(stack) == SubSeq(stack, 1, Len(stack) - 1)

\* ConvertFunctionDecl up to the visit of the function's parameters and
\* body: the self parameter is made, inserted and pushed
ConvertFunctionDeclBegin ==
    /\ status = "running"
    /\ ~funcDecl.converting
    /\ callsLeft > 0
    /\ \E ast \in FunctionDeclMenu :
         IF NeedsSelfParameter(ast)
         THEN LET selfParam == MakeSelfParameter(ast.structDeclRef)
              IN  /\ funcDecl' = [converting |-> TRUE, visited |-> TRUE,
                                  original |-> ast,
                                  ast |-> [ast EXCEPT !.parameters =
                                      InsertAtBegin(ast.parameters, selfParam)]]
                  /\ selfParamStack' = PushSelfParameter(selfParamStack, selfParam)
         ELSE /\ funcDecl' = [converting |-> TRUE, visited |-> TRUE,
                              original |-> ast, ast |-> ast]
              /\ selfParamStack' = selfParamStack
    /\ callsLeft' = callsLeft - 1
    /\ lastCall' = NoCallExpr
    /\ UNCHANGED <<isVKSL, status, disabledAST>>
    /\ UNCHANGED othersOfCalls

\* VisitCallExpr, for a call inside the function being converted or
\* outside of every function
VisitCallExprOf(ast) ==
    LET withPrefix == PrefixToArgument(ast)
        moved == IF isVKSL THEN withPrefix
                 ELSE [withPrefix EXCEPT !.arguments =
                          MoveAllIfSource(withPrefix.arguments, IsSamplerStateExpr)]
        result == IF ast.intrinsic # "Undefined"
                  THEN ConvertIntrinsicCall(moved)
                  ELSE ConvertFunctionCall(moved)
    IN  /\ disabledAST' = IF isVKSL THEN disabledAST
                          ELSE MoveAllIfDest(withPrefix.arguments, disabledAST,
                                             IsSamplerStateExpr)
        /\ status' = IF result.raised THEN "error" ELSE status
        /\ lastCall' = [visited |-> TRUE, original |-> ast, moved |-> moved,
                        ast |-> result.ast, raised |-> result.raised]

VisitCallExprArguments ==
    /\ status = "running"
    /\ callsLeft > 0
    /\ \E ast \in CallExprMenu : VisitCallExprOf(ast)
    /\ callsLeft' = callsLeft - 1
    /\ UNCHANGED <<isVKSL, selfParamStack, funcDecl>>
    /\ UNCHANGED othersOfCalls

\* the end of ConvertFunctionDecl: the sampler-state parameters are moved
\* away and the self parameter is popped
ConvertFunctionDeclReturn ==
    /\ status = "running"
    /\ funcDecl.converting
    /\ funcDecl' = [funcDecl EXCEPT
           !.converting = FALSE,
           !.ast.parameters =
               IF isVKSL THEN @
               ELSE MoveAllIfSource(@, IsSamplerStateExpr)]
    /\ disabledAST' = IF isVKSL THEN disabledAST
                      ELSE MoveAllIfDest(funcDecl.ast.parameters, disabledAST,
                                         IsSamplerStateExpr)
    /\ selfParamStack' = IF NeedsSelfParameter(funcDecl.original)
                         THEN PopSelfParameter(selfParamStack)
                         ELSE selfParamStack
    /\ lastCall' = NoCallExpr
    /\ UNCHANGED <<isVKSL, status, callsLeft>>
    /\ UNCHANGED othersOfCalls

InitCalls ==
    /\ shaderTarget = "VertexShader"
    /\ InitUniformsIdle /\ InitStatesIdle /\ InitFunctionsIdle
    /\ InitStateValuesIdle /\ InitAttributesIdle /\ InitEnumsIdle
    /\ InitFurtherIdle
    /\ isVKSL \in BOOLEAN
    /\ options = [obfuscate |-> FALSE, unrollArrayInitializers |-> FALSE,
                  useAlwaysSemantics |-> FALSE]
    /\ status = "running"
    /\ frames = <<>>
    /\ nodesLeft = 0
    /\ symTable = GlobalScopes
    /\ scopeDecls = <<<<>>>>
    /\ funcDeclStack = <<>>
    /\ structDeclStack = <<>>
    /\ selfParamStack = <<>>
    /\ globalReservedDecls = <<>>
    /\ obfuscationCounter = 0
    /\ anonymCounter = 0
    /\ lastBlock = NoBlock
    /\ lastStruct = NoStruct
    /\ lastDecl = NoDecl
    /\ globalStmnts = <<>>
    /\ disabledAST = <<>>
    /\ lastProgram = NoProgram
    /\ funcDecl = NoFuncDecl
    /\ lastCall = NoCallExpr
    /\ callsLeft = MaxCalls

NextCalls ==
    \/ ConvertFunctionDeclBegin
    \/ VisitCallExprArguments
    \/ ConvertFunctionDeclReturn

SpecCalls == InitCalls /\ [][NextCalls]_vars

(***************************************************************************)
(* C18                                                                     *)
(***************************************************************************)
\* the expression inside the cast a conversion may have put around it
Inner(expr) == IF expr.kind = "CastExpr" THEN expr.expr ELSE expr

InnerAll(exprs) == [i \in 1..Len(exprs) |-> Inner(exprs[i])]

\* the latest call visited was a texture intrinsic with a prefix expression
TextureCallVisited ==
    /\ lastCall.visited
    /\ IsTextureIntrinsic(lastCall.original.intrinsic)
    /\ lastCall.original.prefixExpr # NullExpr

\* C18: after the visit of a texture intrinsic call with a prefix
\* expression, outside VKSL the texture object (the prefix) is the first
\* argument, no argument has a sampler-state type and the remaining
\* arguments are the call's other arguments in their order; in VKSL the
\* number of arguments is unchanged, a first argument of sampler-state type
\* is the binding call of texture and sampler, and every other argument is
\* the one the call had at that place.
C18_TextureObjectArgument ==
    TextureCallVisited =>
        LET before == lastCall.original.arguments
            after == lastCall.ast.arguments
        IN  IF ~isVKSL
            THEN /\ after # <<>>
                 /\ after[1] = lastCall.original.prefixExpr
                 /\ \A i \in 1..Len(after) : ~IsSamplerStateExpr(after[i])
                 /\ InnerAll(Tail(after))
                        = SelectSeq(before, LAMBDA e : ~IsSamplerStateExpr(e))
            ELSE /\ Len(after) = Len(before)
                 /\ \A i \in 1..Len(after) :
                        IF i = 1 /\ IsSamplerStateExpr(before[1])
                        THEN after[1] = MakeTextureSamplerBindingCallExpr(
                                            lastCall.original.prefixExpr, before[1])
                        ELSE Inner(after[i]) = before[i]

\* outside VKSL, a texture call whose sampler state was removed and whose
\* texture object took its place
C18_Witness ==
    /\ TextureCallVisited
    /\ ~isVKSL
    /\ \E i \in 1..Len(lastCall.original.arguments) :
           IsSamplerStateExpr(lastCall.original.arguments[i])
    /\ Len(lastCall.ast.arguments) = Len(lastCall.original.arguments)
    /\ lastCall.ast.arguments[1] = lastCall.original.prefixExpr
    /\ disabledAST # <<>>

(***************************************************************************)
(* C19                                                                     *)
(***************************************************************************)
\* the latest call visited was a saturate call
SaturateCallVisited ==
    lastCall.visited /\ lastCall.original.intrinsic = "Saturate"

\* the arguments of the call as ConvertIntrinsicCallSaturate received it
SaturateArguments == lastCall.moved.arguments

\* exactly one argument, whose type behind the aliases is a base type
OneBaseArgument ==
    /\ Len(SaturateArguments) = 1
    /\ GetAliased(SaturateArguments[1].typeDenoter).kind = "Base"

FunctionCallVisited ==
    lastCall.visited /\ lastCall.original.intrinsic = "Undefined"

\* the self parameter of the function declaration under conversion
SelfParameterOf(decl) == decl.ast.parameters[1]

\* a declaration's parameters other than the sampler states moved away
\* at the end of the conversion outside VKSL
KeptParameters(parameters) ==
    IF funcDecl.converting \/ isVKSL THEN parameters
    ELSE SelectSeq(parameters, LAMBDA e : ~IsSamplerStateExpr(e))

\* the call part of C20: ConvertFunctionCall leaves a call of a non-member
\* function as it is; drops the prefix of a call of a static member
\* function and keeps its arguments; gives a call of a non-static member
\* function exactly one more argument, in front: the prefix the call had,
\* or without prefix a reference to the active self parameter; without
\* prefix and without active self parameter it raises a runtime error.
FunctionCallConverted ==
    FunctionCallVisited =>
        LET before == lastCall.moved
            after == lastCall.ast
            ref == before.funcDeclRef
        IN  IF ~ref.IsMemberFunction
            THEN ~lastCall.raised /\ after = before
            ELSE IF ref.IsStatic
                 THEN /\ ~lastCall.raised
                      /\ after.prefixExpr = NullExpr
                      /\ after.arguments = before.arguments
                 ELSE IF before.prefixExpr # NullExpr
                      THEN /\ ~lastCall.raised
                           /\ Len(after.arguments) = Len(before.arguments) + 1
                           /\ after.arguments[1] = before.prefixExpr
                           /\ Tail(after.arguments) = before.arguments
                      ELSE IF selfParamStack # <<>>
                           THEN /\ ~lastCall.raised
                                /\ Len(after.arguments)
                                       = Len(before.arguments) + 1
                                /\ after.arguments[1].kind = "ObjectExpr"
                                /\ after.arguments[1].symbolRef = SelfParameter
                                /\ Tail(after.arguments) = before.arguments
                           ELSE /\ lastCall.raised
                                /\ status = "error"

\* the declaration part of C20: a non-static member function has exactly
\* one more parameter, in front, named namespacePrefix + "self" and flagged
\* as self parameter, and this parameter is the active self parameter
\* exactly while the function is converted; any other function keeps its
\* parameters and has no self parameter.
SelfParameterDeclared ==
    /\ funcDecl.visited =>
         LET original == funcDecl.original
             parameters == funcDecl.ast.parameters
         IN  IF original.structDeclRef # "" /\ ~original.IsStatic
             THEN /\ Len(parameters)
                         = Len(KeptParameters(original.parameters)) + 1
                  /\ Tail(parameters) = KeptParameters(original.parameters)
                  /\ parameters[1].ident
                         = <<NameMangling.namespacePrefix, "self">>
                  /\ "isSelfParameter" \in parameters[1].flags
                  /\ \A i \in 2..Len(parameters) :
                         "isSelfParameter" \notin parameters[i].flags
                  /\ funcDecl.converting =>
                         /\ selfParamStack # <<>>
                         /\ SelfParameter = parameters[1]
             ELSE /\ parameters = KeptParameters(original.parameters)
                  /\ funcDecl.converting => selfParamStack = <<>>
    /\ ~funcDecl.converting /\ status = "running" => selfParamStack = <<>>

MaxStmnts == 2          \* statements of one statement list
MaxBlocks == 2          \* statement lists of one program

\* an array type with its dimension sizes
ArrayOf(sub, dims) == [kind |-> "Array", sub |-> sub, arrayDims |-> dims]

\* ArrayTypeDenoter::GetDimensionSizes
GetDimensionSizes(arrayTypeDen) == arrayTypeDen.arrayDims

\* { e1, e2, ... }
InitializerExpr(exprs) == [kind |-> "InitializerExpr", exprs |-> exprs]

\* InitializerExpr::FetchSubExpr: the sub-expression at the array indices
RECURSIVE FetchSubExpr(_, _)
FetchSubExpr(expr, arrayIndices) ==
    IF arrayIndices = <<>> THEN expr
    ELSE FetchSubExpr(expr.exprs[Head(arrayIndices) + 1], Tail(arrayIndices))

\* InitializerExpr::NextArrayIndices: the indices of the next element, the
\* last index running fastest; more is FALSE when the step runs over the
\* end of the outermost list
RECURSIVE NextArrayIndicesSubInitializer(_, _, _)
NextArrayIndicesSubInitializer(initExpr, arrayIndices, layer) ==
    IF layer < Len(arrayIndices)
       /\ arrayIndices[layer + 1] >= 0
       /\ arrayIndices[layer + 1] < Len(initExpr.exprs)
    THEN LET index == arrayIndices[layer + 1]
             subExpr == initExpr.exprs[index + 1]
             sub == IF subExpr.kind = "InitializerExpr"
                    THEN NextArrayIndicesSubInitializer(subExpr, arrayIndices,
                                                        layer + 1)
                    ELSE [more |-> FALSE, arrayIndices |-> arrayIndices]
         IN  IF sub.more THEN sub
             ELSE IF index + 1 = Len(initExpr.exprs)
                  THEN [more |-> FALSE,
                        arrayIndices |->
                            [sub.arrayIndices EXCEPT ![layer + 1] = 0]]
                  ELSE [more |-> TRUE,
                        arrayIndices |->
                            [sub.arrayIndices EXCEPT ![layer + 1] = index + 1]]
    ELSE [more |-> FALSE, arrayIndices |-> arrayIndices]

NextArrayIndices(initExpr, arrayIndices) ==
    NextArrayIndicesSubInitializer(initExpr, arrayIndices, 0)

\* ASTFactory::MakeArrayAssignStmnt: ident[i1]...[ik] = expr;
MakeArrayAssignStmnt(varDecl, arrayIndices, assignExpr) ==
    [kind |-> "ExprStmnt", flags |-> {}, ident |-> varDecl.ident,
     arrayIndices |-> arrayIndices, expr |-> assignExpr]

\* the do-while loop of UnrollStmntsVarDeclInitializer from the indices on
RECURSIVE UnrollElements(_, _, _)
UnrollElements(varDecl, initExpr, arrayIndices) ==
    LET subExpr == FetchSubExpr(initExpr, arrayIndices)
        assignStmnt == MakeArrayAssignStmnt(varDecl, arrayIndices, subExpr)
        next == NextArrayIndices(initExpr, arrayIndices)
    IN  <<assignStmnt>>
        \o (IF next.more
            THEN UnrollElements(varDecl, initExpr, next.arrayIndices)
            ELSE <<>>)

\* UnrollStmntsVarDeclInitializer: the statements it appends, and the
\* declarator as it leaves it
UnrollStmntsVarDeclInitializer(varDecl) ==
    LET typeDen == GetAliased(varDecl.typeDenoter)
    IN  IF typeDen.kind = "Array" /\ varDecl.initializer.kind = "InitializerExpr"
        THEN [unrolledStmnts |->
                  UnrollElements(varDecl, varDecl.initializer,
                                 [i \in 1..Len(GetDimensionSizes(typeDen)) |-> 0]),
              varDecl |-> [varDecl EXCEPT !.initializer = NullExpr]]
        ELSE [unrolledStmnts |-> <<>>, varDecl |-> varDecl]

\* UnrollStmntsVarDecl over the declarators from position j on
RECURSIVE UnrollVarDeclsFrom(_, _, _)
UnrollVarDeclsFrom(ast, unrolledStmnts, j) ==
    IF j > Len(ast.varDecls)
    THEN [unrolledStmnts |-> unrolledStmnts, ast |-> ast]
    ELSE IF ast.varDecls[j].initializer # NullExpr
         THEN LET r == UnrollStmntsVarDeclInitializer(ast.varDecls[j])
              IN  UnrollVarDeclsFrom([ast EXCEPT !.varDecls[j] = r.varDecl],
                                     unrolledStmnts \o r.unrolledStmnts, j + 1)
         ELSE UnrollVarDeclsFrom(ast, unrolledStmnts, j + 1)

UnrollVarDecls(ast) == UnrollVarDeclsFrom(ast, <<>>, 1)

\* stmnts.insert(it, ...) with it in front of the declaring statement, and
\* with it behind the declaring statement (++it comes first)
InsertUnrolledBefore(stmnts, i, unrolledStmnts) ==
    SubSeq(stmnts, 1, i - 1) \o unrolledStmnts
        \o SubSeq(stmnts, i, Len(stmnts))
InsertUnrolled(stmnts, i, unrolledStmnts) ==
    SubSeq(stmnts, 1, i) \o unrolledStmnts
        \o SubSeq(stmnts, i + 1, Len(stmnts))

\* the loop of UnrollStmnts from position i on
RECURSIVE UnrollStmntListFrom(_, _)
UnrollStmntListFrom(stmnts, i) ==
    IF i > Len(stmnts) THEN stmnts
    ELSE LET r == IF stmnts[i].kind = "VarDeclStmnt"
                     /\ options.unrollArrayInitializers
                  THEN UnrollVarDecls(stmnts[i])
                  ELSE [unrolledStmnts |-> <<>>, ast |-> stmnts[i]]
             visited1 == [stmnts EXCEPT ![i] = r.ast]
         IN  IF r.unrolledStmnts # <<>>
             THEN UnrollStmntListFrom(
                      InsertUnrolled(visited1, i, r.unrolledStmnts),
                      i + 1 + Len(r.unrolledStmnts))
             ELSE UnrollStmntListFrom(visited1, i + 1)

UnrollStmntList(stmnts) == UnrollStmntListFrom(stmnts, 1)

\* a declarator and a declaration statement
Declarator(ident, typeDenoter, initializer) ==
    [ident |-> ident, typeDenoter |-> typeDenoter, initializer |-> initializer]
DeclStmnt(varDecls) ==
    [kind |-> "VarDeclStmnt", flags |-> {}, varDecls |-> varDecls]

IntType == DataTypeDenoter("Int")
Num(v) == [kind |-> "LiteralExpr", value |-> v]

\* the statements of the lists: declarations of a scalar, of arrays of one
\* and two dimensions, of an array behind an alias, of an array initialized
\* by a call, of an array without initializer, of two arrays in one
\* statement, an expression statement and an unreachable return
UnrollStmntMenu ==
    {DeclStmnt(<<Declarator("x", IntType, Num(1))>>),
     DeclStmnt(<<Declarator("a", ArrayOf(IntType, <<2>>),
                            InitializerExpr(<<Num(1), Num(2)>>))>>),
     DeclStmnt(<<Declarator("m", ArrayOf(IntType, <<2, 3>>),
                            InitializerExpr(
                                <<InitializerExpr(<<Num(1), Num(2), Num(3)>>),
                                  InitializerExpr(<<Num(4), Num(5), Num(6)>>)>>))>>),
     DeclStmnt(<<Declarator("b",
                            AliasTypeDenoter(ArrayOf(IntType, <<2>>)),
                            InitializerExpr(<<Num(5), Num(6)>>))>>),
     DeclStmnt(<<Declarator("c", ArrayOf(IntType, <<2>>),
                            [kind |-> "CallExpr", ident |-> "f"])>>),
     DeclStmnt(<<Declarator("d", ArrayOf(IntType, <<2>>), NullExpr)>>),
     DeclStmnt(<<Declarator("e", ArrayOf(IntType, <<1>>),
                            InitializerExpr(<<Num(7)>>)),
                 Declarator("y", IntType, Num(0)),
                 Declarator("g", ArrayOf(IntType, <<2>>),
                            InitializerExpr(<<Num(8), Num(9)>>))>>),
     [kind |-> "ExprStmnt", flags |-> {}, ident |-> "x", arrayIndices |-> <<>>,
      expr |-> Num(3)],
     [kind |-> "ReturnStmnt", flags |-> {"isDeadCode"}]}

UnrollStmntLists == UNION {[1..n -> UnrollStmntMenu] : n \in 0..MaxStmnts}

\* VisitCodeBlock: dead code is removed and the declarations are unrolled
\* before the statements are visited
VisitCodeBlockStmnts ==
    /\ status = "running"
    /\ blocksLeft > 0
    /\ ~stmntList.visited
    /\ \E stmnts \in UnrollStmntLists :
         stmntList' = [visited |-> TRUE, kind |-> "CodeBlock",
                       before |-> stmnts,
                       after |-> UnrollStmntList(RemoveDeadCode(stmnts))]
    /\ blocksLeft' = blocksLeft - 1
    /\ UNCHANGED <<options>>
    /\ UNCHANGED othersOfUnroll

\* VisitSwitchCase: dead code is removed
VisitSwitchCaseStmnts ==
    /\ status = "running"
    /\ blocksLeft > 0
    /\ ~stmntList.visited
    /\ \E stmnts \in UnrollStmntLists :
         stmntList' = [visited |-> TRUE, kind |-> "SwitchCase",
                       before |-> stmnts,
                       after |-> RemoveDeadCode(stmnts)]
    /\ blocksLeft' = blocksLeft - 1
    /\ UNCHANGED <<options>>
    /\ UNCHANGED othersOfUnroll

InitUnroll ==
    /\ shaderTarget = "VertexShader"
    /\ InitUniformsIdle /\ InitStatesIdle /\ InitFunctionsIdle
    /\ InitStateValuesIdle /\ InitProgramIdle /\ InitAttributesIdle
    /\ InitEnumsIdle /\ InitCallsIdle
    /\ InitEntryIdle /\ InitObjectIdle /\ InitLaterIdle
    /\ isVKSL = FALSE
    /\ options \in [obfuscate : {FALSE}, unrollArrayInitializers : BOOLEAN,
                    useAlwaysSemantics : {FALSE}]
    /\ status = "running"
    /\ frames = <<>>
    /\ nodesLeft = 0
    /\ symTable = GlobalScopes
    /\ scopeDecls = <<<<>>>>
    /\ funcDeclStack = <<>>
    /\ structDeclStack = <<>>
    /\ selfParamStack = <<>>
    /\ globalReservedDecls = <<>>
    /\ obfuscationCounter = 0
    /\ anonymCounter = 0
    /\ lastBlock = NoBlock
    /\ lastStruct = NoStruct
    /\ lastDecl = NoDecl
    /\ stmntList = NoStmntList
    /\ blocksLeft = MaxBlocks

\* the visit of the code block or switch case returns to the walk
VisitStmntsReturn ==
    /\ stmntList.visited
    /\ stmntList' = NoStmntList
    /\ UNCHANGED <<options, blocksLeft>>
    /\ UNCHANGED othersOfUnroll

NextUnroll ==
    \/ VisitCodeBlockStmnts
    \/ VisitSwitchCaseStmnts
    \/ VisitStmntsReturn

SpecUnroll == InitUnroll /\ [][NextUnroll]_vars

(***************************************************************************)
(* C21                                                                     *)
(***************************************************************************)
\* all index tuples of an array with the given dimension sizes, the last
\* index running fastest
RECURSIVE MultiIndices(_)
MultiIndices(dims) ==
    IF dims = <<>> THEN <<<<>>>>
    ELSE LET rest == MultiIndices(Tail(dims))
             Row(i) == [j \in 1..Len(rest) |-> <<i>> \o rest[j]]
             RECURSIVE Rows(_)
             Rows(i) == IF i = Head(dims) THEN <<>>
                        ELSE Row(i) \o Rows(i + 1)
         IN  Rows(0)

\* the leaf of a nested initializer at an index tuple
RECURSIVE LeafAt(_, _)
LeafAt(expr, idx) ==
    IF idx = <<>> THEN expr ELSE LeafAt(expr.exprs[Head(idx) + 1], Tail(idx))

\* a declarator of array type with an initializer list
IsArrayWithList(varDecl) ==
    /\ GetAliased(varDecl.typeDenoter).kind = "Array"
    /\ varDecl.initializer.kind = "InitializerExpr"

\* the element assignments of one declarator
ElementAssignments(varDecl) ==
    IF IsArrayWithList(varDecl)
    THEN LET idx == MultiIndices(GetAliased(varDecl.typeDenoter).arrayDims)
         IN  [n \in 1..Len(idx) |->
                [kind |-> "ExprStmnt", flags |-> {}, ident |-> varDecl.ident,
                 arrayIndices |-> idx[n],
                 expr |-> LeafAt(varDecl.initializer, idx[n])]]
    ELSE <<>>

RECURSIVE AssignmentsOf(_)
AssignmentsOf(varDecls) ==
    IF varDecls = <<>> THEN <<>>
    ELSE ElementAssignments(Head(varDecls)) \o AssignmentsOf(Tail(varDecls))

\* a declaration statement with the initializer lists of its arrays removed
WithoutInitializerLists(stmnt) ==
    [stmnt EXCEPT !.varDecls =
        [j \in 1..Len(stmnt.varDecls) |->
            IF IsArrayWithList(stmnt.varDecls[j])
            THEN [stmnt.varDecls[j] EXCEPT !.initializer = NullExpr]
            ELSE stmnt.varDecls[j]]]

\* what the statement list must have become
RECURSIVE ExpectedUnrolled(_)
ExpectedUnrolled(stmnts) ==
    IF stmnts = <<>> THEN <<>>
    ELSE LET st == Head(stmnts)
         IN  (IF st.kind = "VarDeclStmnt" /\ options.unrollArrayInitializers
              THEN <<WithoutInitializerLists(st)>> \o AssignmentsOf(st.varDecls)
              ELSE <<st>>)
             \o ExpectedUnrolled(Tail(stmnts))

Reachable(stmnts) == SelectSeq(stmnts, LAMBDA st : "isDeadCode" \notin st.flags)

\* C21: with array-initializer unrolling enabled, the visit of a code block
\* puts behind every declaration of an array of dimensions d1..dk with an
\* initializer list, and in front of the statement that followed it, one
\* element assignment per index tuple (d1 * ... * dk of them) in row-major
\* order, and removes the initializer from the declaration; declarations
\* that are not arrays, or whose initializer is not an initializer list,
\* are unchanged and nothing is emitted for them.
C21_ArrayInitializersUnrolled ==
    stmntList.visited /\ stmntList.kind = "CodeBlock" =>
        stmntList.after = ExpectedUnrolled(Reachable(stmntList.before))

\* m[2][3] = {{1,2,3},{4,5,6}} followed by another statement: six
\* assignments between the two
C21_Witness ==
    /\ stmntList.visited /\ stmntList.kind = "CodeBlock"
    /\ options.unrollArrayInitializers
    /\ Len(stmntList.before) = 2
    /\ stmntList.before[1].kind = "VarDeclStmnt"
    /\ stmntList.before[1].varDecls[1].ident = "m"
    /\ stmntList.before[2].kind = "ExprStmnt"
    /\ Len(stmntList.after) = 8
    /\ stmntList.after[3].arrayIndices = <<0, 1>>
    /\ stmntList.after[3].expr = Num(2)
    /\ stmntList.after[8] = stmntList.before[2]
    /\ stmntList.after[1].varDecls[1].initializer = NullExpr

(***************************************************************************)
(* GLSLConverter::VisitProgram: the entry point's input and output         *)
(* variables are renamed and registered before the global statements are   *)
(* visited                                                                 *)
(***************************************************************************)
\* the entry points of the programs: their user-named and system-value
\* input and output variables
EntryPointInputs ==
    {<<>>,
     <<SemanticVar(<<"x">>, "COLOR", {"isShaderInput"})>>,
     <<SemanticVar(<<"x">>, "COLOR", {"isShaderInput"}),
       SemanticVar(<<"n">>, "NORMAL", {"isShaderInput"})>>}
EntryPointOutputs ==
    {<<>>,
     <<SemanticVar(<<"y">>, "COLOR", {})>>,
     <<SemanticVar(<<"t">>, "TEXCOORD1", {}), SemanticVar(<<"y">>, "COLOR", {})>>}
EntryPointInputsSV ==
    {<<>>, <<SemanticVar(<<"id">>, "SV_VertexID", {"isShaderInput"})>>}
EntryPointOutputsSV ==
    {<<>>, <<SemanticVar(<<"pos">>, "SV_Position", {})>>}

EntryPointMenu ==
    [inputs : EntryPointInputs, outputs : EntryPointOutputs,
     inputsSV : EntryPointInputsSV, outputsSV : EntryPointOutputsSV]

\* VisitProgram up to the visit of the global statements
VisitProgramRegister ==
    /\ status = "idle"
    /\ \E entryPoint \in EntryPointMenu :
         LET ep == RenameEntryPoint(entryPoint, shaderTarget,
                                    options.useAlwaysSemantics)
             r1 == RegisterGlobalDeclIdents(ep.inputs,
                       [reserved |-> globalReservedDecls,
                        counter |-> obfuscationCounter])
             r2 == RegisterGlobalDeclIdents(ep.outputs, r1)
             r3 == RegisterGlobalDeclIdents(ep.inputsSV, r2)
             r4 == RegisterGlobalDeclIdents(ep.outputsSV, r3)
         IN  /\ globalReservedDecls' = r4.reserved
             /\ obfuscationCounter' = r4.counter
             /\ entryPointLog' = [visited |-> TRUE, original |-> entryPoint,
                                  renamed |-> ep]
    /\ status' = "running"
    /\ UNCHANGED <<shaderTarget, options>>
    /\ UNCHANGED othersOfEntry

InitEntryPoint ==
    /\ shaderTarget \in ShaderTargets
    /\ InitUniformsIdle /\ InitStatesIdle /\ InitFunctionsIdle
    /\ InitStateValuesIdle /\ InitProgramIdle /\ InitAttributesIdle
    /\ InitEnumsIdle /\ InitCallsIdle
    /\ InitUnrollIdle /\ InitObjectIdle /\ InitLaterIdle
    /\ isVKSL = FALSE
    /\ options \in [obfuscate : BOOLEAN, unrollArrayInitializers : {FALSE},
                    useAlwaysSemantics : BOOLEAN]
    /\ status = "idle"
    /\ frames = <<>>
    /\ nodesLeft = 0
    /\ symTable = GlobalScopes
    /\ scopeDecls = <<<<>>>>
    /\ funcDeclStack = <<>>
    /\ structDeclStack = <<>>
    /\ selfParamStack = <<>>
    /\ globalReservedDecls = <<>>
    /\ obfuscationCounter = 0
    /\ anonymCounter = 0
    /\ lastBlock = NoBlock
    /\ lastStruct = NoStruct
    /\ lastDecl = NoDecl
    /\ entryPointLog = NoEntryPointLog

NextEntryPoint ==
    \/ VisitProgramRegister

SpecEntryPoint == InitEntryPoint /\ [][NextEntryPoint]_vars

(***************************************************************************)
(* C22                                                                     *)
(***************************************************************************)
\* the identifiers of a list of variables
Idents(varDecls) == [i \in 1..Len(varDecls) |-> varDecls[i].ident]

\* every variable's identifier is the prefix followed by its semantic
Prefixed(prefix, varDecls) ==
    [i \in 1..Len(varDecls) |-> <<prefix, varDecls[i].semantic>>]

\* every variable's identifier is its semantic alone
SemanticOnly(varDecls) == [i \in 1..Len(varDecls) |-> <<varDecls[i].semantic>>]

\* a variable without the identifier and the position it was given
Unnamed(varDecl) == [semantic |-> varDecl.semantic, flags |-> varDecl.flags]

MaxExprs == 2           \* object expressions of one program

NullDecl == [kind |-> "Null"]

\* a structure declaration with its base structure and its flags
StructDeclOf(ident, baseIdent, flags) ==
    [kind |-> "StructDecl", ident |-> ident, baseIdent |-> baseIdent,
     flags |-> flags]

\* a structure type with the declaration it resolved to
StructTypeOf(structDecl) ==
    [kind |-> "Struct", ident |-> structDecl.ident, structDeclRef |-> structDecl]

\* a variable declaration; structDeclRef is the structure it is a member of
VarDeclOf(ident, typeDenoter, structDeclRef) ==
    [kind |-> "VarDecl", ident |-> ident, typeDenoter |-> typeDenoter,
     structDeclRef |-> structDeclRef]

\* the structures of the program: the entry point's input structure, a
\* structure passed to another function, a structure with member functions
\* and a structure derived from it
VertexIn == StructDeclOf("VertexIn", "", {})
Light == StructDeclOf("Light", "", {"isNonEntryPointParam"})
Owner == StructDeclOf("Owner", "", {})
Derived == StructDeclOf("Derived", "Owner", {})

\* StructDecl::IsBaseOf
IsBaseOf(structDecl, subStructDecl) ==
    subStructDecl.baseIdent = structDecl.ident

\* the members the expressions access
CoordVar == VarDeclOf("coord", DataTypeDenoter(<<"Float", 2>>), VertexIn)
ColorVar == VarDeclOf("color", DataTypeDenoter(<<"Float", 4>>), VertexIn)
PlainVar == VarDeclOf("intensity", DataTypeDenoter("Float"), Light)
OwnerVar == VarDeclOf("size", DataTypeDenoter("Float"), Owner)

\* the entry point of the program: its input and output semantic variables
ProgramEntryPoint ==
    [inputSemantics |-> {CoordVar}, outputSemantics |-> {ColorVar}]

\* an object expression: prefixExpr.ident, naming symbolRef
ObjectExprOf(prefixExpr, symbolRef) ==
    [kind |-> "ObjectExpr", prefixExpr |-> prefixExpr,
     ident |-> IF symbolRef = NullDecl THEN "" ELSE symbolRef.ident,
     symbolRef |-> symbolRef, flags |-> {}]

BracketExpr(expr) == [kind |-> "BracketExpr", expr |-> expr]

SubscriptExpr(prefixExpr) ==
    [kind |-> "ArrayExpr", prefixExpr |-> prefixExpr, arrayIndices |-> <<Num(0)>>]

\* Expr::FetchNonBracketExpr
RECURSIVE FetchNonBracketExpr(_)
FetchNonBracketExpr(expr) ==
    IF expr.kind = "BracketExpr" THEN FetchNonBracketExpr(expr.expr) ELSE expr

\* ObjectExpr::FetchVarDecl: the variable the expression names, if any
FetchVarDecl(expr) ==
    IF expr.kind = "ObjectExpr" /\ expr.symbolRef.kind = "VarDecl"
    THEN expr.symbolRef ELSE NullDecl

\* IsGlobalInOutVarDecl
IsGlobalInOutVarDecl(varDecl) ==
    IF varDecl # NullDecl
    THEN varDecl \in ProgramEntryPoint.inputSemantics
         \/ varDecl \in ProgramEntryPoint.outputSemantics
    ELSE FALSE

\* MakeObjectExprImmutableForNEPStruct: whether it marks the expression
IsNEPStruct(structDecl) ==
    structDecl # NullDecl /\ "isNonEntryPointParam" \in structDecl.flags

MakeObjectExprImmutable(objectExpr) ==
    [objectExpr EXCEPT !.flags = @ \cup {"isImmutable"}]

\* expr.reset(), and a prefix dropped wherever a global variable is accessed
DropsPrefixOfNEPStruct(isNEP, objectExpr) ==
    IsGlobalInOutVarDecl(FetchVarDecl(objectExpr))
DropsPrefix(isNEP, objectExpr) ==
    ~isNEP /\ IsGlobalInOutVarDecl(FetchVarDecl(objectExpr))

ConvertEntryPointStructPrefixObject(prefixExpr, objectExpr) ==
    LET varDecl == FetchVarDecl(prefixExpr)
    IN  IF varDecl # NullDecl /\ GetAliased(varDecl.typeDenoter).kind = "Struct"
        THEN LET structDecl == GetAliased(varDecl.typeDenoter).structDeclRef
                 marked == IF IsNEPStruct(structDecl)
                           THEN MakeObjectExprImmutable(objectExpr)
                           ELSE objectExpr
             IN  IF DropsPrefix(IsNEPStruct(structDecl), objectExpr)
                 THEN [marked EXCEPT !.prefixExpr = NullExpr]
                 ELSE marked
        ELSE objectExpr

ConvertEntryPointStructPrefixArray(prefixExpr, objectExpr) ==
    LET varDecl == FetchVarDecl(prefixExpr.prefixExpr)
    IN  IF varDecl # NullDecl /\ GetAliased(varDecl.typeDenoter).kind = "Array"
           /\ GetAliased(GetAliased(varDecl.typeDenoter).sub).kind = "Struct"
           /\ IsNEPStruct(GetAliased(GetAliased(varDecl.typeDenoter).sub)
                              .structDeclRef)
        THEN MakeObjectExprImmutable(objectExpr)
        ELSE objectExpr

ConvertEntryPointStructPrefix(objectExpr) ==
    LET nonBracketExpr == FetchNonBracketExpr(objectExpr.prefixExpr)
    IN  IF nonBracketExpr.kind = "ObjectExpr"
        THEN ConvertEntryPointStructPrefixObject(nonBracketExpr, objectExpr)
        ELSE IF nonBracketExpr.kind = "ArrayExpr"
             THEN ConvertEntryPointStructPrefixArray(nonBracketExpr, objectExpr)
             ELSE objectExpr

\* VisitorTracker::ActiveStructDecl
ActiveStructDecl ==
    IF structDeclStack = <<>> THEN NullDecl
    ELSE structDeclStack[Len(structDeclStack)]

\* the part of VisitObjectExpr for an expression without prefix
InsertSelfPrefix(ast) ==
    IF selfParamStack # <<>> /\ ActiveStructDecl # NullDecl
       /\ FetchVarDecl(ast) # NullDecl
       /\ FetchVarDecl(ast).structDeclRef # NullDecl
       /\ (FetchVarDecl(ast).structDeclRef = ActiveStructDecl
           \/ IsBaseOf(FetchVarDecl(ast).structDeclRef, ActiveStructDecl))
    THEN [ast EXCEPT !.prefixExpr = MakeObjectExpr(SelfParameter)]
    ELSE ast

\* the variables in front of the members
VarOfType(ident, typeDenoter) ==
    ObjectExprOf(NullExpr, VarDeclOf(ident, typeDenoter, NullDecl))

PrefixMenu ==
    {VarOfType("inp", StructTypeOf(VertexIn)),
     VarOfType("inp", AliasTypeDenoter(StructTypeOf(VertexIn))),
     VarOfType("light", StructTypeOf(Light)),
     VarOfType("unresolved",
               [kind |-> "Struct", ident |-> "U", structDeclRef |-> NullDecl]),
     VarOfType("v", DataTypeDenoter(<<"Float", 4>>)),
     ObjectExprOf(NullExpr, NullDecl),
     BracketExpr(VarOfType("inp", StructTypeOf(VertexIn))),
     BracketExpr(BracketExpr(VarOfType("light", StructTypeOf(Light)))),
     SubscriptExpr(VarOfType("inps", ArrayOf(StructTypeOf(VertexIn), <<3>>))),
     SubscriptExpr(VarOfType("lights", ArrayOf(StructTypeOf(Light), <<3>>))),
     BracketExpr(SubscriptExpr(
         VarOfType("lights",
                   AliasTypeDenoter(ArrayOf(StructTypeOf(Light), <<3>>))))),
     SubscriptExpr(VarOfType("vs", ArrayOf(DataTypeDenoter("Float"), <<3>>))),
     [kind |-> "CallExpr", ident |-> "f"]}

MemberMenu == {CoordVar, ColorVar, PlainVar, OwnerVar, NullDecl}

ObjectExprMenu ==
    {ObjectExprOf(prefixExpr, member) :
         prefixExpr \in PrefixMenu \cup {NullExpr}, member \in MemberMenu}

\* where the visit can be: outside of every structure, or inside a member
\* function of Owner or of Derived
InsideMemberFunctionOf(structDecl) ==
    /\ structDeclStack = <<structDecl>>
    /\ selfParamStack = <<MakeSelfParameter(structDecl.ident)>>

VisitObjectExpr ==
    /\ status = "running"
    /\ exprsLeft > 0
    /\ \E ast \in ObjectExprMenu :
         lastObjectExpr' =
             [visited |-> TRUE, original |-> ast,
              ast |-> IF ast.prefixExpr # NullExpr
                      THEN ConvertEntryPointStructPrefix(ast)
                      ELSE InsertSelfPrefix(ast)]
    /\ exprsLeft' = exprsLeft - 1
    /\ UNCHANGED othersOfObject

\* a statement without object expression
VisitOtherExpr ==
    /\ status = "running"
    /\ exprsLeft > 0
    /\ lastObjectExpr' = NoObjectExpr
    /\ exprsLeft' = exprsLeft - 1
    /\ UNCHANGED othersOfObject

InitObjectExpr ==
    /\ shaderTarget = "VertexShader"
    /\ InitUniformsIdle /\ InitStatesIdle /\ InitFunctionsIdle
    /\ InitStateValuesIdle /\ InitProgramIdle /\ InitAttributesIdle
    /\ InitEnumsIdle /\ InitCallsIdle
    /\ InitUnrollIdle /\ InitEntryIdle /\ InitLaterIdle
    /\ isVKSL = FALSE
    /\ options = [obfuscate |-> FALSE, unrollArrayInitializers |-> FALSE,
                  useAlwaysSemantics |-> FALSE]
    /\ status = "running"
    /\ frames = <<>>
    /\ nodesLeft = 0
    /\ symTable = GlobalScopes
    /\ scopeDecls = <<<<>>>>
    /\ funcDeclStack = <<>>
    /\ \/ structDeclStack = <<>> /\ selfParamStack = <<>>
       \/ InsideMemberFunctionOf(Owner)
       \/ InsideMemberFunctionOf(Derived)
    /\ globalReservedDecls = <<>>
    /\ obfuscationCounter = 0
    /\ anonymCounter = 0
    /\ lastBlock = NoBlock
    /\ lastStruct = NoStruct
    /\ lastDecl = NoDecl
    /\ lastObjectExpr = NoObjectExpr
    /\ exprsLeft = MaxExprs

NextObjectExpr ==
    \/ VisitObjectExpr
    \/ VisitOtherExpr

SpecObjectExpr == InitObjectExpr /\ [][NextObjectExpr]_vars

(***************************************************************************)
(* C23                                                                     *)
(***************************************************************************)
\* the prefix without its brackets
BarePrefix(objectExpr) == FetchNonBracketExpr(objectExpr.prefixExpr)

\* the prefix names a variable whose type is a structure
PrefixIsStructVariable(objectExpr) ==
    /\ objectExpr.prefixExpr # NullExpr
    /\ BarePrefix(objectExpr).kind = "ObjectExpr"
    /\ BarePrefix(objectExpr).symbolRef.kind = "VarDecl"
    /\ GetAliased(BarePrefix(objectExpr).symbolRef.typeDenoter).kind = "Struct"

PrefixStruct(objectExpr) ==
    GetAliased(BarePrefix(objectExpr).symbolRef.typeDenoter).structDeclRef

AccessesInOutVariable(objectExpr) ==
    objectExpr.symbolRef \in ProgramEntryPoint.inputSemantics
                                 \cup ProgramEntryPoint.outputSemantics

\* C23: an object expression whose prefix resolves to a variable of
\* structure type is marked immutable and keeps its prefix if the
\* structure is flagged as non-entry-point parameter; otherwise its prefix
\* is dropped if and only if the member accessed is one of the entry
\* point's input or output semantic variables.  No object expression is
\* both marked immutable and without its prefix, and a prefix that is an
\* array subscript is never dropped.
C23_EntryPointStructPrefix ==
    lastObjectExpr.visited /\ lastObjectExpr.original.prefixExpr # NullExpr =>
        LET before == lastObjectExpr.original
            after == lastObjectExpr.ast
        IN  /\ PrefixIsStructVariable(before) =>
                IF PrefixStruct(before) # NullDecl
                   /\ "isNonEntryPointParam" \in PrefixStruct(before).flags
                THEN /\ "isImmutable" \in after.flags
                     /\ after.prefixExpr = before.prefixExpr
                ELSE /\ (after.prefixExpr = NullExpr)
                            <=> AccessesInOutVariable(before)
                     /\ after.prefixExpr # NullExpr =>
                            after.prefixExpr = before.prefixExpr
            /\ ~("isImmutable" \in after.flags /\ after.prefixExpr = NullExpr)
            /\ BarePrefix(before).kind = "ArrayExpr" =>
                   after.prefixExpr = before.prefixExpr

\* inp.coord with inp of the entry point's input structure: the prefix is
\* gone and the expression is not immutable
C23_Witness ==
    /\ lastObjectExpr.visited
    /\ PrefixIsStructVariable(lastObjectExpr.original)
    /\ PrefixStruct(lastObjectExpr.original) = VertexIn
    /\ AccessesInOutVariable(lastObjectExpr.original)
    /\ lastObjectExpr.ast.prefixExpr = NullExpr
    /\ "isImmutable" \notin lastObjectExpr.ast.flags

(***************************************************************************)
(* C24: during one conversion pass a declaration's identifier is renamed   *)
(* at most once, before it is registered: the name a declaration has when  *)
(* RegisterDeclIdent puts it on the globally reserved list is the name it  *)
(* keeps until the end of the pass.  RegisterGlobalDeclIdents (lines       *)
(* 513-517) registers the entry point's variables before the walk, and     *)
(* the walk reaches the same declarations again through VisitVarDecl       *)
(* (lines 208-212), which passes them through RegisterDeclIdent a second   *)
(* time.                                                                   *)
(***************************************************************************)
KeepsRegisteredName(i) ==
    /\ i \in DOMAIN globalReservedDecls'
    /\ globalReservedDecls'[i].ident = globalReservedDecls[i].ident

C24_RenamedOnceBeforeRegistration ==
    [][status = "running" =>
          \A i \in DOMAIN globalReservedDecls : KeepsRegisteredName(i)]_vars

(***************************************************************************)
(* C25: with options.obfuscate on, every identifier that goes through      *)
(* RenameReservedKeyword becomes "_" followed by the value the obfuscation *)
(* counter has at that moment, and the counter goes up by one each time,   *)
(* so the numbers handed out in one pass strictly increase in visit order  *)
(* and no two identifiers get the same one; with obfuscate off the counter *)
(* never changes.  VisitProgram passes the entry point's variables through *)
(* the renaming one after the other before the walk starts.                *)
(***************************************************************************)
Obfuscated(n) == <<"_", ToString(n)>>

NumberedInOrder(reserved, first) ==
    \A i \in DOMAIN reserved : reserved[i].ident = Obfuscated(first + i - 1)

ObfuscationStep ==
    /\ lastDecl'.visited =>
          /\ lastDecl'.ident = Obfuscated(obfuscationCounter)
          /\ obfuscationCounter' = obfuscationCounter + 1
    /\ status = "idle" =>
          /\ NumberedInOrder(globalReservedDecls', obfuscationCounter)
          /\ obfuscationCounter' =
                 obfuscationCounter + Len(globalReservedDecls')
    /\ (status = "running" /\ ~lastDecl'.visited) =>
          obfuscationCounter' = obfuscationCounter

C25_ObfuscationCounter ==
    [][IF options.obfuscate
       THEN ObfuscationStep
       ELSE obfuscationCounter' = obfuscationCounter]_vars

C25_Witness ==
    /\ options.obfuscate
    /\ lastDecl.visited
    /\ lastDecl.kind = "StructDecl"
    /\ obfuscationCounter > Len(globalReservedDecls) + 1
    /\ lastDecl.ident = Obfuscated(obfuscationCounter - 1)

(***************************************************************************)
(* SpecStructs: the structure declarations of a program as the converter   *)
(* names them.  A structure is declared by a declaration statement of its  *)
(* own or inside an alias declaration statement (typedef struct { } T, U). *)
(* VisitAliasDeclStmnt (lines 273-287) names an anonymous structure after  *)
(* the first alias and then descends; VisitStructDecl (lines 226-229)      *)
(* labels a structure that is still anonymous and passes the identifier    *)
(* through RenameReservedKeyword.                                          *)
(***************************************************************************)
MaxDecls == 3

NoStructDecl == [kind |-> "Null"]

StructDecl(ident) == [kind |-> "StructDecl", ident |-> ident]

\* an alias of a structure: its name and the name its type denoter holds
AliasDecl(ident, typeIdent) ==
    [kind |-> "AliasDecl", ident |-> ident, typeDenoter |-> typeIdent]

AliasDeclStmnt(structDecl, aliasDecls) ==
    [kind |-> "AliasDeclStmnt", structDecl |-> structDecl,
     aliasDecls |-> aliasDecls]

StructIdentMenu == {<<>>, <<"S">>, <<"input">>}

AliasNameLists == {<<>>, <<<<"T">>>>, <<<<"T">>, <<"U">>>>, <<<<"input">>>>}

AliasDeclStmntMenu ==
    {AliasDeclStmnt(structDecl,
                    [i \in DOMAIN names |->
                        AliasDecl(names[i],
                                  IF structDecl = NoStructDecl THEN <<"int">>
                                  ELSE structDecl.ident)]) :
        structDecl \in {NoStructDecl} \cup
                       {StructDecl(ident) : ident \in StructIdentMenu},
        names \in AliasNameLists}

\* StructTypeDenoter::SetIdentIfAnonymous
SetIdentIfAnonymous(typeIdent, ident) ==
    IF typeIdent = <<>> THEN ident ELSE typeIdent

\* VisitAliasDeclStmnt: the identifier the statement's structure has when
\* the default descent starts
AliasStructIdentLast(ast) ==
    IF ast.structDecl.ident = <<>> /\ ast.aliasDecls # <<>>
    THEN ast.aliasDecls[Len(ast.aliasDecls)].ident
    ELSE ast.structDecl.ident

AliasStructIdent(ast) ==
    IF ast.structDecl.ident = <<>> /\ ast.aliasDecls # <<>>
    THEN Head(ast.aliasDecls).ident
    ELSE ast.structDecl.ident

AliasTypeDenoters(ast) ==
    IF ast.structDecl.ident = <<>> /\ ast.aliasDecls # <<>>
    THEN [i \in DOMAIN ast.aliasDecls |->
             SetIdentIfAnonymous(ast.aliasDecls[i].typeDenoter,
                                 AliasStructIdent(ast))]
    ELSE [i \in DOMAIN ast.aliasDecls |-> ast.aliasDecls[i].typeDenoter]

\* VisitStructDecl, lines 228-229: the identifier and the two counters
VisitStructDeclIdent(ident, anonym, obfuscation) ==
    LET lab == LabelAnonymousStructDecl(ident, anonym)
        r == RenameReservedKeyword(lab.ident, obfuscation)
    IN  [ident |-> r.ident, anonym |-> lab.counter, obfuscation |-> r.counter]

VisitedStruct(original, aliasNames, typeDenoters, inAlias, ident) ==
    [original |-> original, aliasNames |-> aliasNames,
     typeDenoters |-> typeDenoters, inAlias |-> inAlias, ident |-> ident]

VisitAliasDeclStmnt ==
    /\ declsLeft > 0
    /\ \E ast \in AliasDeclStmntMenu :
         IF ast.structDecl = NoStructDecl
         THEN UNCHANGED <<structLog, anonymCounter, obfuscationCounter>>
         ELSE LET r == VisitStructDeclIdent(AliasStructIdent(ast),
                                           anonymCounter, obfuscationCounter)
              IN  /\ structLog' = Append(structLog,
                         VisitedStruct(ast.structDecl.ident,
                             [i \in DOMAIN ast.aliasDecls |->
                                 ast.aliasDecls[i].ident],
                             AliasTypeDenoters(ast), TRUE, r.ident))
                  /\ anonymCounter' = r.anonym
                  /\ obfuscationCounter' = r.obfuscation
    /\ declsLeft' = declsLeft - 1
    /\ UNCHANGED <<options, othersOfStructs>>

VisitStructDeclStmnt ==
    /\ declsLeft > 0
    /\ \E ident \in StructIdentMenu :
         LET r == VisitStructDeclIdent(ident, anonymCounter,
                                      obfuscationCounter)
         IN  /\ structLog' = Append(structLog,
                    VisitedStruct(ident, <<>>, <<>>, FALSE, r.ident))
             /\ anonymCounter' = r.anonym
             /\ obfuscationCounter' = r.obfuscation
    /\ declsLeft' = declsLeft - 1
    /\ UNCHANGED <<options, othersOfStructs>>

InitStructs ==
    /\ shaderTarget = "VertexShader"
    /\ InitUniformsIdle /\ InitStatesIdle /\ InitFunctionsIdle
    /\ InitStateValuesIdle /\ InitProgramIdle /\ InitAttributesIdle
    /\ InitEnumsIdle /\ InitCallsIdle
    /\ InitUnrollIdle /\ InitEntryIdle /\ InitObjectIdle /\ InitMoltenIdle
    /\ InitRecordIdle
    /\ isVKSL = FALSE
    /\ options \in [obfuscate : BOOLEAN, unrollArrayInitializers : {FALSE},
                    useAlwaysSemantics : {FALSE}]
    /\ status = "running"
    /\ frames = <<>>
    /\ nodesLeft = 0
    /\ symTable = GlobalScopes
    /\ scopeDecls = <<<<>>>>
    /\ funcDeclStack = <<>>
    /\ structDeclStack = <<>>
    /\ selfParamStack = <<>>
    /\ globalReservedDecls = <<>>
    /\ obfuscationCounter = 0
    /\ anonymCounter = 0
    /\ lastBlock = NoBlock
    /\ lastStruct = NoStruct
    /\ lastDecl = NoDecl
    /\ structLog = <<>>
    /\ declsLeft = MaxDecls

NextStructs ==
    \/ VisitAliasDeclStmnt
    \/ VisitStructDeclStmnt

SpecStructs == InitStructs /\ [][NextStructs]_vars

\* the visited structure was anonymous and the alias statement named it
NamedByAlias(e) == e.original = <<>> /\ e.inAlias /\ e.aliasNames # <<>>

\* the visited structure was anonymous and LabelAnonymousStructDecl named it
LabelledByCounter(e) == e.original = <<>> /\ ~NamedByAlias(e)

\* the number of structures before the k-th that took a counter value
LabelledBefore(k) ==
    Cardinality({j \in 1..(k - 1) : LabelledByCounter(structLog[j])})

AnonymLabel(n) == <<NameMangling.temporaryPrefix, "anonym", ToString(n)>>

\* the name a visited structure has before RenameReservedKeyword
NameOfStruct(k) ==
    LET e == structLog[k] IN
    IF NamedByAlias(e) THEN e.aliasNames[1]
    ELSE IF LabelledByCounter(e) THEN AnonymLabel(LabelledBefore(k))
    ELSE e.original

CounterLabelsDistinct ==
    \A j, k \in DOMAIN structLog :
        (j # k /\ LabelledByCounter(structLog[j])
               /\ LabelledByCounter(structLog[k]))
            => structLog[j].ident # structLog[k].ident

(***************************************************************************)
(* C26 as stated: every visited structure declaration has a non-empty      *)
(* identifier; the n-th anonymous structure the structure visit reaches    *)
(* has the identifier temporaryPrefix + "anonym" + n, an anonymous         *)
(* structure of an alias declaration statement has the first alias's name  *)
(* and takes no counter value, and distinct anonymous structures have      *)
(* distinct labels.                                                        *)
(***************************************************************************)
C26_AnonymousStructsLabelled ==
    /\ \A k \in DOMAIN structLog :
          /\ structLog[k].ident # <<>>
          /\ structLog[k].original = <<>> =>
                structLog[k].ident = NameOfStruct(k)
    /\ anonymCounter = LabelledBefore(Len(structLog) + 1)
    /\ CounterLabelsDistinct

\* what RenameReservedKeyword makes of the k-th visited structure's name
FinalNameOfStruct(k) ==
    IF options.obfuscate THEN Obfuscated(k - 1)
    ELSE IF IsReservedKeyword(NameOfStruct(k)) \/ BeginsWithGl(NameOfStruct(k))
         THEN <<NameMangling.reservedWordPrefix>> \o NameOfStruct(k)
         ELSE NameOfStruct(k)

(***************************************************************************)
(* C26 amended: every visited structure declaration has a non-empty        *)
(* identifier.  An anonymous structure of an alias declaration statement   *)
(* with at least one alias is named after the first alias and takes no     *)
(* counter value; any other anonymous structure is named temporaryPrefix + *)
(* "anonym" + n, n counting the structures labelled so before it.  The     *)
(* name then goes through RenameReservedKeyword: with obfuscate off it     *)
(* stays, except that an alias name that is a reserved word or begins with *)
(* gl_ gets reservedWordPrefix; with obfuscate on the identifier is "_" +  *)
(* the obfuscation counter.  Structures labelled by the counter have       *)
(* pairwise distinct identifiers.                                          *)
(***************************************************************************)
C26_AnonymousStructsLabelledThenRenamed ==
    /\ \A k \in DOMAIN structLog :
          /\ structLog[k].ident # <<>>
          /\ structLog[k].ident = FinalNameOfStruct(k)
    /\ anonymCounter = LabelledBefore(Len(structLog) + 1)
    /\ CounterLabelsDistinct

C26_Witness ==
    /\ ~options.obfuscate
    /\ Len(structLog) = 3
    /\ NamedByAlias(structLog[2])
    /\ Len(structLog[2].aliasNames) = 2
    /\ structLog[2].ident = <<"T">>
    /\ LabelledByCounter(structLog[1])
    /\ LabelledByCounter(structLog[3])
    /\ structLog[3].ident = AnonymLabel(1)

(***************************************************************************)
(* C27: decoding the options key "forward" with a literal value v sets     *)
(* globalOptions.transparent to v (v read as a boolean) and leaves         *)
(* globalOptions.forward and every other field as they were; whatever      *)
(* state declarations a program holds, globalOptions.forward keeps its     *)
(* default false.                                                          *)
(***************************************************************************)
ForwardKeyDecoded ==
    /\ lastStateValue.decoded
    /\ lastStateValue.stateType = "Options"
    /\ lastStateValue.ast.name = "forward"
    /\ lastStateValue.ast.value.kind = "LiteralExpr"

C27_ForwardKeyWritesTransparent ==
    /\ globalOptions.forward = FALSE
    /\ ForwardKeyDecoded =>
          /\ globalOptions.transparent = (lastStateValue.ast.value # Off)
          /\ \A field \in DOMAIN globalOptions \ {"transparent"} :
                globalOptions[field] = lastStateValue.before[4][field]
          /\ lastStateValue.reports = 0

\* "forward" with a false literal was decoded while transparent was true
C27_Witness ==
    /\ ForwardKeyDecoded
    /\ lastStateValue.ast.value = Off
    /\ lastStateValue.before[4].transparent
    /\ ~globalOptions.transparent
    /\ ~globalOptions.forward

(***************************************************************************)
(* C28 (SpecStates): the render-target cursor at or past                   *)
(* MAX_NUM_RENDER_TARGETS.                                                 *)
(***************************************************************************)
\* the cursor is 8 or more when the step starts
CursorPastTargets == ~UInt32Less(blendTargetIdx, MAX_NUM_RENDER_TARGETS)

\* the "index" keys of a target initializer whose value is a literal
LiteralIndexKeys(exprs) ==
    SelectSeq(exprs, LAMBDA e : e.name = "index" /\ e.value.kind = "LiteralExpr")

\* the literal the last such key holds, as written
ExplicitIndex(exprs) ==
    LiteralIndexKeys(exprs)[Len(LiteralIndexKeys(exprs))].value.value

\* the target entry names a target 0..7 by a literal index
HasExplicitIndexInTargets(exprs) ==
    /\ LiteralIndexKeys(exprs) # <<>>
    /\ \E i \in 0..(MAX_NUM_RENDER_TARGETS - 1) :
          ExplicitIndex(exprs) = IntLiteral(i)

\* the step drops the target entry: nothing of the blend state changes
Dropped == blendState' = blendState

\* the step decodes the target entry into one of the eight targets
DecodedAgain ==
    /\ lastValue'.writes # {}
    /\ lastValue'.writes \subseteq 0..(MAX_NUM_RENDER_TARGETS - 1)
    /\ UInt32Less(blendTargetIdx', MAX_NUM_RENDER_TARGETS + 1)

\* C28 as stated: within one blend state declaration, once the cursor is
\* 8 or more, every later target entry without an explicit index in 0..7
\* is dropped without a report and the cursor does not move; a later target
\* entry with an explicit index in 0..7 is decoded again.
C28_DroppedPastTargets ==
    [][(CursorPastTargets /\ TargetStep) =>
          IF HasExplicitIndexInTargets(lastValue'.ast.value.exprs)
          THEN DecodedAgain
          ELSE /\ Dropped
               /\ lastValue'.reports = 0
               /\ blendTargetIdx' = blendTargetIdx]_vars

\* C28, amended: within one blend state declaration, once the cursor is 8
\* or more, a later target entry without a literal index key is dropped
\* and the cursor does not move; a target entry with a literal index key
\* sets the cursor to that literal converted to 32 bits unsigned (the
\* last key counts) and is decoded iff the converted value is below 8,
\* else dropped with the cursor left at the converted value; a dropped
\* entry reports one error for each index key that is not a literal and
\* nothing else.
C28_DroppedUnlessIndexBelowEight ==
    [][(CursorPastTargets /\ TargetStep) =>
          LET exprs == lastValue'.ast.value.exprs
              after == IF LiteralIndexKeys(exprs) = <<>> THEN blendTargetIdx
                       ELSE [hi |-> ExplicitIndex(exprs).hi % TwoTo16,
                             lo |-> ExplicitIndex(exprs).lo]
          IN  IF after.hi = 0 /\ after.lo < MAX_NUM_RENDER_TARGETS
              THEN /\ DecodedAgain
                   /\ DecodedInto(after.lo)
                   /\ blendTargetIdx' = CursorAt(after.lo + 1)
              ELSE /\ Dropped
                   /\ blendTargetIdx' = after
                   /\ lastValue'.reports =
                          Len(IndexKeys(exprs)) - Len(LiteralIndexKeys(exprs))]_vars

\* after a negative explicit index left the cursor at 2^32 - 1, a target
\* entry without index key was dropped: nothing was written, nothing
\* reported, and the cursor is where it was
C28_Witness ==
    /\ lastValue.name = "target"
    /\ lastValue.isInitializer
    /\ IndexKeys(lastValue.ast.value.exprs) = <<>>
    /\ lastValue.ast.value.exprs # <<>>
    /\ lastValue.writes = {}
    /\ lastValue.reports = 0
    /\ blendTargetIdx = CursorAt(-1)

(***************************************************************************)
(* SpecRecord: one reflection record under repeated calls of Reflect.      *)
(* Reflect (lines 28-39) stores the address of the caller's record and     *)
(* walks the program; it never clears the record, so a second call goes on *)
(* with what the first one left.                                           *)
(***************************************************************************)
MaxRuns == 2            \* calls of Reflect with one record

\* the program of each call holds at most one declaration
RecordVisits == Len(visited) + Len(fnVisited)

ProgramHasDecl == RecordVisits <= reflectRuns

\* data_ = (&reflectionData): a sequence of the record as Reflect finds it
ReflectionDataCleared(sequence) == <<>>

ReflectionDataAtReflect(sequence) == sequence

\* the declarations of the programs Reflect is called with here: buffers
\* with one member, statements with one declarator, functions with one
\* parameter and no attributes that are not the entry point; the entry
\* point, if there is one, has one input variable
LatestDecl == visited'[Len(visited')].ast

LatestFunctionDecl == fnVisited'[Len(fnVisited')].ast

RecordUniformBufferDecl ==
    /\ ProgramHasDecl
    /\ ~lastEntryPoint.visited
    /\ VisitUniformBufferDecl
    /\ Len(LatestDecl.varMembers) = 1

RecordBufferDeclStmnt ==
    /\ ProgramHasDecl
    /\ ~lastEntryPoint.visited
    /\ VisitBufferDeclStmnt
    /\ Len(LatestDecl.bufferDecls) = 1

RecordSamplerDecl ==
    /\ ProgramHasDecl
    /\ ~lastEntryPoint.visited
    /\ VisitSamplerDecl

RecordFunctionDecl ==
    /\ ProgramHasDecl
    /\ ~lastEntryPoint.visited
    /\ VisitFunctionDecl
    /\ Len(LatestFunctionDecl.parameters) = 1
    /\ LatestFunctionDecl.attribs = <<>>
    /\ ~LatestFunctionDecl.isEntryPoint

RecordEntryPoint ==
    /\ reflectRuns < MaxRuns
    /\ VisitProgramEntryPoint
    /\ lastEntryPoint'.hasEntryPoint =>
          Len(lastEntryPoint'.entryPoint.varDeclRefs) = 1

\* the next call of Reflect, with the same record
ReflectAgain ==
    /\ lastEntryPoint.visited
    /\ reflectRuns + 1 < MaxRuns
    /\ reflectRuns' = reflectRuns + 1
    /\ lastEntryPoint' = NoEntryPoint
    /\ textures' = ReflectionDataAtReflect(textures)
    /\ storageBuffers' = ReflectionDataAtReflect(storageBuffers)
    /\ constantBuffers' = ReflectionDataAtReflect(constantBuffers)
    /\ inputAttributes' = ReflectionDataAtReflect(inputAttributes)
    /\ outputAttributes' = ReflectionDataAtReflect(outputAttributes)
    /\ uniforms' = ReflectionDataAtReflect(uniforms)
    /\ defaultValues' = ReflectionDataAtReflect(defaultValues)
    /\ functions' = ReflectionDataAtReflect(functions)
    /\ UNCHANGED <<shaderTarget, samplerStates, visited, stateVars, numThreads,
                   fnVisited, convertVars, stateValueVars, programVars,
                   enumVars, callVars, unrollVars, entryVars, objectVars,
                   structVars, moltenVars>>

InitRecord ==
    /\ shaderTarget \in ShaderTargets
    /\ InitUniformsIdle /\ InitStatesIdle /\ InitFunctionsIdle
    /\ InitConvertIdle
    /\ InitExtraIdle

NextRecord ==
    \/ RecordUniformBufferDecl
    \/ RecordBufferDeclStmnt
    \/ RecordSamplerDecl
    \/ RecordFunctionDecl
    \/ RecordEntryPoint
    \/ ReflectAgain

SpecRecord == InitRecord /\ [][NextRecord]_vars

IsPrefixOf(before, after) ==
    /\ Len(before) <= Len(after)
    /\ \A i \in DOMAIN before : after[i] = before[i]

\* the uniforms' indices into constantBuffers and defaultValues designate
\* an element of the record
IndicesDesignate ==
    \A i \in DOMAIN uniforms :
        /\ uniforms[i].uniformBlock # -1
              => uniforms[i].uniformBlock + 1 \in DOMAIN constantBuffers
        /\ uniforms[i].defaultValue # -1
              => uniforms[i].defaultValue + 1 \in DOMAIN defaultValues

(***************************************************************************)
(* C29: the sequences of the reflection record (textures, storageBuffers,  *)
(* constantBuffers, inputAttributes, outputAttributes, uniforms,           *)
(* defaultValues, functions) only grow at the end: no visit and no new     *)
(* call of Reflect removes, moves or changes an element that is in the     *)
(* record, so an index a uniform stores into constantBuffers or            *)
(* defaultValues keeps designating the element it designated.              *)
(***************************************************************************)
C29_SequencesAppendOnly ==
    [][/\ IsPrefixOf(textures, textures')
       /\ IsPrefixOf(storageBuffers, storageBuffers')
       /\ IsPrefixOf(constantBuffers, constantBuffers')
       /\ IsPrefixOf(inputAttributes, inputAttributes')
       /\ IsPrefixOf(outputAttributes, outputAttributes')
       /\ IsPrefixOf(uniforms, uniforms')
       /\ IsPrefixOf(defaultValues, defaultValues')
       /\ IsPrefixOf(functions, functions')
       /\ IndicesDesignate']_vars

\* in the second call of Reflect on one record a uniform buffer with a
\* member was reflected behind the buffer and the attributes of the first
\* call
C29_Witness ==
    /\ reflectRuns = 1
    /\ Len(visited) = 2
    /\ visited[1].ast.kind = "BufferDeclStmnt"
    /\ visited[2].ast.kind = "UniformBufferDecl"
    /\ Len(uniforms) > 2
    /\ uniforms[Len(uniforms)].uniformBlock = 0
    /\ Len(inputAttributes) = 2
    /\ lastEntryPoint.visited

(***************************************************************************)
(* SpecMoltenVK: MoltenVKConverter::Convert over the buffer declaration    *)
(* statements of a program.  The walk visits the buffer declarations of a  *)
(* statement one after the other; VisitBufferDecl asks onVisitBufferDecl,  *)
(* which looks at the type of the declaring statement as it is at that     *)
(* moment.                                                                 *)
(***************************************************************************)
MaxBufferStmnts == 2    \* buffer declaration statements of a program
MaxBufferDecls == 2     \* buffer declarations of one statement

MoltenBufferTypes == {"Buffer", "RWBuffer", "RWStructuredBuffer"}

\* the generic type denoter and generic size of a buffer type
GenericArguments == {[genericTypeDenoter |-> "Float", genericSize |-> 1],
                     [genericTypeDenoter |-> "Int", genericSize |-> 4]}

\* std::make_shared<BufferTypeDenoter>(bufferType) with the two generic
\* fields assigned
MakeBufferTypeDenoter(bufferType, genericTypeDenoter, genericSize) ==
    [bufferType |-> bufferType, genericTypeDenoter |-> genericTypeDenoter,
     genericSize |-> genericSize]

\* a buffer declaration statement with n buffer declarations
MoltenBufferDeclStmnts ==
    {[typeDenoter |-> MakeBufferTypeDenoter(bufferType, g.genericTypeDenoter,
                                            g.genericSize),
      numBufferDecls |-> n] :
        bufferType \in MoltenBufferTypes, g \in GenericArguments,
        n \in 1..MaxBufferDecls}

MoltenPrograms ==
    UNION {[1..n -> MoltenBufferDeclStmnts] : n \in 1..MaxBufferStmnts}

\* the BufferDecl at a position of the program, as convertedSymbols_ holds it
BufferSymbol(cursor) == <<cursor.stmnt, cursor.decl>>

\* the position behind cursor in the walk, NoCursor behind the last one
NextBufferDecl(stmnts, cursor) ==
    IF cursor.decl < stmnts[cursor.stmnt].numBufferDecls
    THEN [cursor EXCEPT !.decl = cursor.decl + 1]
    ELSE IF cursor.stmnt < Len(stmnts)
         THEN [stmnt |-> cursor.stmnt + 1, decl |-> 1]
         ELSE NoCursor

\* onVisitBufferDecl: the declaring statement afterwards and the result
onVisitBufferDecl(bufferDeclStmnt) ==
    IF bufferDeclStmnt.typeDenoter.bufferType = "RWBuffer"
    THEN [stmnt |-> [bufferDeclStmnt EXCEPT !.typeDenoter =
                        MakeBufferTypeDenoter("RWStructuredBuffer",
                            bufferDeclStmnt.typeDenoter.genericTypeDenoter,
                            bufferDeclStmnt.typeDenoter.genericSize)],
          converted |-> TRUE]
    ELSE [stmnt |-> bufferDeclStmnt, converted |-> FALSE]

MoltenVKConvert ==
    /\ bufferStmnts = <<>>
    /\ \E program \in MoltenPrograms :
         /\ bufferStmnts' = program
         /\ bufferStmntsBefore' = program
    /\ bufferCursor' = [stmnt |-> 1, decl |-> 1]
    /\ convertedSymbols' = {}
    /\ UNCHANGED othersOfMolten

VisitBufferDecl ==
    /\ bufferCursor # NoCursor
    /\ LET r == onVisitBufferDecl(bufferStmnts[bufferCursor.stmnt])
       IN  /\ bufferStmnts' = [bufferStmnts EXCEPT ![bufferCursor.stmnt] = r.stmnt]
           /\ convertedSymbols' =
                  IF r.converted
                  THEN convertedSymbols \cup {BufferSymbol(bufferCursor)}
                  ELSE convertedSymbols
    /\ bufferCursor' = NextBufferDecl(bufferStmnts, bufferCursor)
    /\ UNCHANGED bufferStmntsBefore
    /\ UNCHANGED othersOfMolten

InitMoltenVK ==
    /\ shaderTarget = "VertexShader"
    /\ InitUniformsIdle /\ InitStatesIdle /\ InitFunctionsIdle
    /\ InitConvertIdle
    /\ InitExtraIdle

NextMoltenVK ==
    \/ MoltenVKConvert
    \/ VisitBufferDecl

SpecMoltenVK == InitMoltenVK /\ [][NextMoltenVK]_vars

\* Convert has returned
MoltenVKConverted == bufferStmnts # <<>> /\ bufferCursor = NoCursor

WasRWBuffer(i) == bufferStmntsBefore[i].typeDenoter.bufferType = "RWBuffer"

BufferSymbolsOf(i) ==
    {<<i, j>> : j \in 1..bufferStmntsBefore[i].numBufferDecls}

(***************************************************************************)
(* C30: after MoltenVKConverter::Convert no buffer declaration statement   *)
(* has buffer type RWBuffer: each that had it is RWStructuredBuffer with   *)
(* the same generic type denoter and generic size, and every BufferDecl of *)
(* such a statement is in convertedSymbols_, also when the statement       *)
(* declares several buffers; statements of any other type are unchanged    *)
(* and their buffers are not in convertedSymbols_.                         *)
(***************************************************************************)
C30_RWBuffersConverted ==
    MoltenVKConverted =>
        \A i \in DOMAIN bufferStmnts :
            /\ bufferStmnts[i].typeDenoter.bufferType # "RWBuffer"
            /\ IF WasRWBuffer(i)
               THEN /\ bufferStmnts[i].typeDenoter =
                          [bufferStmntsBefore[i].typeDenoter
                              EXCEPT !.bufferType = "RWStructuredBuffer"]
                    /\ BufferSymbolsOf(i) \subseteq convertedSymbols
               ELSE /\ bufferStmnts[i] = bufferStmntsBefore[i]
                    /\ BufferSymbolsOf(i) \cap convertedSymbols = {}

====
